---- MODULE Spec2Model ----
(***************************************************************************)
(* Model of authly-common's policy decision point                          *)
(* (crates/authly-common/src/policy/engine.rs, policy/code.rs) and of the  *)
(* identifier representation it relies on (crates/authly-common/src/id.rs).*)
(*                                                                         *)
(* Identifiers are modelled as the code stores them: 16 big-endian bytes.  *)
(* Bytecode is a sequence of bytes, evaluated one instruction at a time.   *)
(*                                                                         *)
(* Further down: the property mapping of authly-common (service.rs) and    *)
(* the client of crates/authly-client: its shared state, its background    *)
(* worker, its refresh streams and its access control request builder;     *)
(* last, the text and byte conversions of the identifiers (id.rs).         *)
(***************************************************************************)
EXTENDS Integers, Sequences, FiniteSets, TLC

VARIABLES
    policies,        \* PolicyEngine.policies: PolicyId -> [class, bytecode]
    trigger_groups,  \* PolicyEngine.trigger_groups: AttrId -> Seq(PolicyTrigger)
    params,          \* the AccessControlParams of the last eval call ("none" before)
    result,          \* what the last eval call returned ("none" before)
    evaluated,       \* the policies eval_policy was run on in the last eval call
    tracer,          \* the recording PolicyTracer handed to the last eval call, after it
    ops,             \* an instruction sequence bytecode is made from
    program,         \* the bytecode handed to eval_policy
    mach,            \* the state of one eval_policy run: remaining code, stack, outcome
    mapping,         \* a NamespacePropertyMapping under construction
    mapping_call,    \* the last call on it: a put or a translate, with its arguments and output
    handles,         \* how many Client values the callers hold
    cstate,          \* ClientState: conn, reconfigure, resource_property_mapping
    worker,          \* the background worker task: position, receivers, message stream
    reconfigured,    \* watch channel of ConnectionParams
    metadata_invalidated, \* watch channel of ()
    closed,          \* watch channel of (), sent to when ClientState is dropped
    stream,          \* the refresh stream a caller task holds
    builder,         \* the AccessControlRequestBuilder a caller task holds
    authority,       \* the Authly service the client talks to
    id_call          \* the last identifier conversion called: its arguments and output

vars == <<policies, trigger_groups, params, result, evaluated, tracer, ops, program, mach,
          mapping, mapping_call, handles, cstate, worker, reconfigured,
          metadata_invalidated, closed, stream, builder, authority, id_call>>

engineVars == <<policies, trigger_groups, params, result, evaluated, tracer>>
codeVars   == <<ops, program, mach>>
mappingVars == <<mapping, mapping_call>>
clientVars == <<handles, cstate, worker, reconfigured, metadata_invalidated, closed,
                stream, builder, authority>>
idVars == <<id_call>>

\* No property mapping is under construction and no client is connected.
NoCall == [op |-> "none"]
NoMapping == mapping = "none" /\ mapping_call = NoCall
NoId == id_call = NoCall
NoClient ==
    /\ handles = 0
    /\ cstate = "none"
    /\ worker = "none"
    /\ reconfigured = "none"
    /\ metadata_invalidated = "none"
    /\ closed = "none"
    /\ stream = "none"
    /\ builder = "none"
    /\ authority = "none"

-----------------------------------------------------------------------------
(* Bounds of the model *)

MaxAttr == 1        \* attribute ids are from_uint(0) .. from_uint(MaxAttr)
MaxPolicyId == 1    \* policy ids are from_uint(0) .. from_uint(MaxPolicyId)
MaxTriggers == 1    \* add_trigger is called at most this many times
MaxOps == 4         \* length of the opcode / instruction sequences tried
MaxNamespace == 1   \* namespace labels are LabelNames[1 .. MaxNamespace + 1]
MaxProperty == 0    \* property labels are LabelNames[1 .. MaxProperty + 1]
MaxAttribute == 1   \* attribute labels are LabelNames[1 .. MaxAttribute + 1]
MaxTriples == 2     \* how many triples one translate call is given
MaxParams == 1      \* connection parameters the environment can yield: 0 .. MaxParams
MaxMessages == 2    \* control messages (and stream failures) the authority delivers
MaxHandles == 2     \* Client values alive at once

-----------------------------------------------------------------------------
(* Bytes and 128-bit identifiers *)

RECURSIVE Pow256(_)
Pow256(k) == IF k = 0 THEN 1 ELSE 256 * Pow256(k - 1)

\* u128::to_be_bytes for the values the model uses (all below 2^24): byte i of
\* 16, most significant first.
to_be_bytes(val) ==
    [i \in 1..16 |-> IF i < 14 THEN 0 ELSE (val \div Pow256(16 - i)) % 256]

\* Id128::from_uint
from_uint(val) == to_be_bytes(val)

\* Ord for Id128: lexicographic comparison of the 16 bytes.
IdLess(a, b) ==
    \E i \in 1..16 : a[i] < b[i] /\ \A j \in 1..(i - 1) : a[j] = b[j]

\* BTreeSet::iter().next(): the least element.
FirstOf(set) == CHOOSE a \in set : \A b \in set : a = b \/ IdLess(a, b)

\* Kind: the stable discriminants, and the Entity subset.
KindPersona == 0
KindGroup == 1
KindService == 2
KindDomain == 3
KindPolicy == 4
KindProperty == 5
KindAttribute == 6
KindDirectory == 7

KindValid(b) == b \in KindPersona..KindDirectory
EntityContains(kind) == kind \in {KindPersona, KindGroup, KindService}

AttrIds == {from_uint(n) : n \in 0..MaxAttr}
PolicyIds == {from_uint(n) : n \in 0..MaxPolicyId}

-----------------------------------------------------------------------------
(* policy/code.rs: opcodes and their encoding *)

\* enum Bytecode (repr u8)
LoadSubjectId == 0
LoadSubjectAttrs == 1
LoadResourceId == 2
LoadResourceAttrs == 3
LoadConstAttrId == 4
LoadConstEntityId == 5
IsEq == 6
SupersetOf == 7
IdSetContains == 8
And == 9
Or == 10
Not == 11
Return == 12

\* Bytecode::try_from(u8) succeeds exactly on the discriminants.
BytecodeValid(b) == b \in LoadSubjectId..Return

\* Id128::to_uint (u128::from_be_bytes) for identifiers below 2^24.
to_uint(id) == id[14] * 65536 + id[15] * 256 + id[16]

\* unsigned_varint::encode::u128: 7 bits per byte, least significant group
\* first, the top bit set on every byte but the last.
RECURSIVE varint_u128(_)
varint_u128(number) ==
    IF number < 128 THEN <<number>>
    ELSE <<(number % 128) + 128>> \o varint_u128(number \div 128)

\* enum OpCode: op is the Bytecode discriminant, id the immediate (or <<>>),
\* kind the entity kind of LoadConstEntityId (0 otherwise).
OpCode(op, kind, id) == [op |-> op, kind |-> kind, id |-> id]

\* One arm of the match in to_bytecode.
encode_opcode(opcode) ==
    IF opcode.op \in {LoadSubjectId, LoadResourceId, LoadConstAttrId}
    THEN <<opcode.op>> \o varint_u128(to_uint(opcode.id))
    ELSE IF opcode.op = LoadConstEntityId
    THEN <<opcode.op, opcode.kind>> \o varint_u128(to_uint(opcode.id))
    ELSE <<opcode.op>>

RECURSIVE to_bytecode(_)
to_bytecode(opcodes) ==
    IF opcodes = <<>> THEN <<>>
    ELSE encode_opcode(Head(opcodes)) \o to_bytecode(Tail(opcodes))

-----------------------------------------------------------------------------
(* policy/engine.rs: eval_policy, one instruction at a time *)

\* enum StackItem
Uint(u) == [tag |-> "Uint", val |-> u]
AttrIdSetItem(set) == [tag |-> "AttrIdSet", val |-> set]
EntityIdItem(kind, id) == [tag |-> "EntityId", val |-> <<kind, id>>]
AttrIdItem(id) == [tag |-> "AttrId", val |-> id]

Bool01(b) == Uint(IF b THEN 1 ELSE 0)

\* A run of eval_policy: pc is the code not yet read, out is "running" until
\* the function returns Ok(true) / Ok(false) / Err(Program) / Err(Type), or
\* "Panic" when it unwinds.
Machine(pc, stack, out) == [pc |-> pc, stack |-> stack, out |-> out]
Halt(m, out) == [m EXCEPT !.out = out]

Top(stack) == stack[Len(stack)]
Pop(stack) == SubSeq(stack, 1, Len(stack) - 1)

\* The match of IsEq on the two popped operands (a was on top).
is_eq(a, b) ==
    IF a.tag = "AttrId" /\ b.tag = "AttrId" THEN a.val = b.val
    ELSE IF a.tag = "EntityId" /\ b.tag = "EntityId" THEN a.val = b.val
    ELSE IF a.tag = "AttrIdSet" /\ b.tag = "AttrId" THEN b.val \in a.val
    ELSE IF a.tag = "AttrId" /\ b.tag = "AttrIdSet" THEN a.val \in b.val
    ELSE FALSE

\* The reading half of one loop iteration of eval_policy: the opcode byte
\* (Bytecode::try_from), then read_u8 / read_u128::<BigEndian> for the arms
\* that take an immediate. status is "ok", or the error the reading ends in.
Decoded(status, instr, rest) == [status |-> status, instr |-> instr, rest |-> rest]
NoInstr == OpCode(Return + 1, 0, <<>>)

decode_instr(pc) ==
    LET code == Head(pc)
        rest == Tail(pc)
    IN IF ~BytecodeValid(code) THEN Decoded("Program", NoInstr, rest)
       ELSE IF code \in {LoadSubjectId, LoadResourceId, LoadConstAttrId}
       THEN IF Len(rest) < 16 THEN Decoded("Program", NoInstr, rest)
            ELSE Decoded("ok", OpCode(code, 0, SubSeq(rest, 1, 16)),
                         SubSeq(rest, 17, Len(rest)))
       ELSE IF code = LoadConstEntityId
       THEN IF Len(rest) < 1 THEN Decoded("Program", NoInstr, rest)
            ELSE IF ~KindValid(rest[1]) THEN Decoded("Type", NoInstr, rest)
            ELSE IF Len(rest) < 17 THEN Decoded("Program", NoInstr, rest)
            ELSE Decoded("ok", OpCode(code, rest[1], SubSeq(rest, 2, 17)),
                         SubSeq(rest, 18, Len(rest)))
       ELSE Decoded("ok", OpCode(code, 0, <<>>), rest)

\* LoadSubjectId / LoadResourceId: the lookup in the *_eids map.
step_load_id(m, rest, prop_id, eids) ==
    IF prop_id \notin DOMAIN eids THEN Halt(m, "Type")
    ELSE Machine(rest, Append(m.stack, EntityIdItem(eids[prop_id][1], eids[prop_id][2])),
                 "running")

\* LoadConstEntityId: EntityId::new panics on a kind outside the Entity subset.
step_load_const_entity_id(m, rest, kind, id) ==
    IF ~EntityContains(kind) THEN Halt(m, "Panic")
    ELSE Machine(rest, Append(m.stack, EntityIdItem(kind, id)), "running")

step_load_const_attr_id(m, rest, id) ==
    Machine(rest, Append(m.stack, AttrIdItem(id)), "running")

step_is_eq(m, rest) ==
    IF Len(m.stack) < 2 THEN Halt(m, "Type")
    ELSE LET a == Top(m.stack)
             b == Top(Pop(m.stack))
         IN Machine(rest, Append(Pop(Pop(m.stack)), Bool01(is_eq(a, b))), "running")

step_superset_of(m, rest) ==
    IF Len(m.stack) < 1 \/ Top(m.stack).tag # "AttrIdSet" THEN Halt(m, "Type")
    ELSE IF Len(m.stack) < 2 \/ Top(Pop(m.stack)).tag # "AttrIdSet" THEN Halt(m, "Type")
    ELSE LET a == Top(m.stack).val
             b == Top(Pop(m.stack)).val
         IN Machine(rest, Append(Pop(Pop(m.stack)), Bool01(b \subseteq a)), "running")

step_id_set_contains(m, rest) ==
    IF Len(m.stack) < 2 THEN Halt(m, "Type")
    ELSE LET a == Top(m.stack)
             b == Top(Pop(m.stack))
         IN IF a.tag = "AttrIdSet" /\ b.tag = "AttrId"
            THEN Machine(rest, Append(Pop(Pop(m.stack)), Bool01(b.val \in a.val)), "running")
            ELSE Halt(m, "Type")

\* And / Or: both operands must be Uint.
step_and(m, rest) ==
    IF Len(m.stack) < 1 \/ Top(m.stack).tag # "Uint" THEN Halt(m, "Type")
    ELSE IF Len(m.stack) < 2 \/ Top(Pop(m.stack)).tag # "Uint" THEN Halt(m, "Type")
    ELSE LET rhs == Top(m.stack).val
             lhs == Top(Pop(m.stack)).val
         IN Machine(rest, Append(Pop(Pop(m.stack)), Bool01(rhs > 0 /\ lhs > 0)), "running")

step_or(m, rest) ==
    IF Len(m.stack) < 1 \/ Top(m.stack).tag # "Uint" THEN Halt(m, "Type")
    ELSE IF Len(m.stack) < 2 \/ Top(Pop(m.stack)).tag # "Uint" THEN Halt(m, "Type")
    ELSE LET rhs == Top(m.stack).val
             lhs == Top(Pop(m.stack)).val
         IN Machine(rest, Append(Pop(Pop(m.stack)), Bool01(rhs > 0 \/ lhs > 0)), "running")

step_not(m, rest) ==
    IF Len(m.stack) < 1 \/ Top(m.stack).tag # "Uint" THEN Halt(m, "Type")
    ELSE Machine(rest, Append(Pop(m.stack), Bool01(~(Top(m.stack).val > 0))), "running")

step_return(m, rest) ==
    IF Len(m.stack) < 1 \/ Top(m.stack).tag # "Uint" THEN Halt(m, "Type")
    ELSE Halt(Machine(rest, Pop(m.stack), "running"),
              IF Top(m.stack).val > 0 THEN "true" ELSE "false")

\* A faulty fall-through: code that runs out counts as a false policy.
step_end_of_code_false(m) == Halt(m, "false")

\* The fall-through of the while loop: the code ran out without a Return.
step_end_of_code(m) == Halt(m, "Program")

\* The executing half of one loop iteration: the match on the opcode.
exec_instr(m, instr, rest, p) ==
    LET code == instr.op
    IN IF code = LoadSubjectId THEN step_load_id(m, rest, instr.id, p.subject_eids)
       ELSE IF code = LoadSubjectAttrs
            THEN Machine(rest, Append(m.stack, AttrIdSetItem(p.subject_attrs)), "running")
       ELSE IF code = LoadResourceId THEN step_load_id(m, rest, instr.id, p.resource_eids)
       ELSE IF code = LoadResourceAttrs
            THEN Machine(rest, Append(m.stack, AttrIdSetItem(p.resource_attrs)), "running")
       ELSE IF code = LoadConstEntityId
            THEN step_load_const_entity_id(m, rest, instr.kind, instr.id)
       ELSE IF code = LoadConstAttrId THEN step_load_const_attr_id(m, rest, instr.id)
       ELSE IF code = IsEq THEN step_is_eq(m, rest)
       ELSE IF code = SupersetOf THEN step_superset_of(m, rest)
       ELSE IF code = IdSetContains THEN step_id_set_contains(m, rest)
       ELSE IF code = And THEN step_and(m, rest)
       ELSE IF code = Or THEN step_or(m, rest)
       ELSE IF code = Not THEN step_not(m, rest)
       ELSE step_return(m, rest)

step_decoded(m, d, p) ==
    IF d.status # "ok" THEN Halt(m, d.status) ELSE exec_instr(m, d.instr, d.rest, p)

\* One iteration of the while loop of eval_policy on a running machine.
step_policy(m, p) ==
    IF m.pc = <<>> THEN step_end_of_code(m) ELSE step_decoded(m, decode_instr(m.pc), p)

RECURSIVE run_policy(_, _)
run_policy(m, p) ==
    IF m.out # "running" THEN m ELSE run_policy(step_policy(m, p), p)

\* eval_policy(pc, params): "true", "false", "Program", "Type" or "Panic".
eval_policy(bytecode, p) == run_policy(Machine(bytecode, <<>>, "running"), p).out

-----------------------------------------------------------------------------
(* policy/engine.rs: the tracer *)

\* Two implementations of PolicyTracer: NoOpPolicyTracer, whose methods are
\* the empty defaults, and a recording one that keeps every report.
NoOpPolicyTracer == [kind |-> "NoOp", log |-> <<>>]
RecordingTracer == [kind |-> "Recording", log |-> <<>>]
Tracers == {NoOpPolicyTracer, RecordingTracer}

Report(t, event) ==
    IF t.kind = "NoOp" THEN t ELSE [t EXCEPT !.log = Append(@, event)]

report_applicable(t, class, policy_ids) == Report(t, <<"applicable", class, policy_ids>>)
report_policy_eval_start(t, policy_id) == Report(t, <<"start", policy_id>>)
report_policy_eval_end(t, value) == Report(t, <<"end", value>>)

-----------------------------------------------------------------------------
(* policy/engine.rs: PolicyEngine *)

PolicyValues == {"Deny", "Allow"}

\* impl From<bool> for PolicyValue
PolicyValueFrom(b) == IF b THEN "Allow" ELSE "Deny"

Policy(class, bytecode) == [class |-> class, bytecode |-> bytecode]
PolicyTrigger(attr_matcher, policy_ids) ==
    [attr_matcher |-> attr_matcher, policy_ids |-> policy_ids]

\* An engine value: the two maps of struct PolicyEngine.
Engine(pols, groups) == [policies |-> pols, trigger_groups |-> groups]

\* PolicyEngine::default()
EmptyMap == [x \in {} |-> x]
DefaultEngine == Engine(EmptyMap, EmptyMap)

\* PolicyEngine::add_policy: HashMap::insert replaces an existing entry.
add_policy(eng, id, class, bytecode) ==
    [eng EXCEPT !.policies = (id :> Policy(class, bytecode)) @@ @]

\* PolicyEngine::add_trigger: filed under the first attribute of the matcher,
\* dropped when the matcher is empty.
add_trigger(eng, attr_matcher, policy_ids) ==
    IF attr_matcher = {} THEN eng
    ELSE LET first_attr == FirstOf(attr_matcher)
             old == IF first_attr \in DOMAIN eng.trigger_groups
                    THEN eng.trigger_groups[first_attr] ELSE <<>>
         IN [eng EXCEPT !.trigger_groups =
                (first_attr :> Append(old, PolicyTrigger(attr_matcher, policy_ids))) @@ @]

\* PolicyEngine::get_policy_count / get_trigger_count
get_policy_count(eng) == Cardinality(DOMAIN eng.policies)

RECURSIVE SumLen(_, _)
SumLen(groups, keys) ==
    IF keys = {} THEN 0
    ELSE LET k == CHOOSE k \in keys : TRUE
         IN Len(groups[k]) + SumLen(groups, keys \ {k})

get_trigger_count(eng) == SumLen(eng.trigger_groups, DOMAIN eng.trigger_groups)

\* struct EvalCtx: the keys of the two maps (each key maps to its policy in
\* eng.policies).
EvalCtx(allow, deny) == [applicable_allow |-> allow, applicable_deny |-> deny]

\* A faulty trigger test: one attribute of the matcher present is enough.
trigger_applies_any(policy_trigger, p) ==
    \E attr \in policy_trigger.attr_matcher : attr \in p.subject_attrs \cup p.resource_attrs

\* collect_applicable, the test of one trigger: a trigger of more than one
\* attribute applies when the attributes of the request that it mentions
\* are all of its matcher.
trigger_applies(policy_trigger, p) ==
    IF Cardinality(policy_trigger.attr_matcher) > 1
    THEN LET matches == {attr \in p.subject_attrs : attr \in policy_trigger.attr_matcher}
                        \cup {attr \in p.resource_attrs : attr \in policy_trigger.attr_matcher}
         IN matches = policy_trigger.attr_matcher
    ELSE TRUE

\* A faulty registration: one id missing from the engine makes the whole
\* trigger count for nothing.
register_policies_all_or_nothing(eng, policy_trigger, ctx) ==
    IF ~(policy_trigger.policy_ids \subseteq DOMAIN eng.policies) THEN ctx
    ELSE EvalCtx(ctx.applicable_allow
                    \cup {id \in policy_trigger.policy_ids : eng.policies[id].class = "Allow"},
                 ctx.applicable_deny
                    \cup {id \in policy_trigger.policy_ids : eng.policies[id].class = "Deny"})

\* collect_applicable, the registration of the policies of one applying
\* trigger: ids missing from the engine are skipped.
register_policies(eng, policy_trigger, ctx) ==
    LET found == policy_trigger.policy_ids \cap DOMAIN eng.policies
    IN EvalCtx(ctx.applicable_allow \cup {id \in found : eng.policies[id].class = "Allow"},
               ctx.applicable_deny \cup {id \in found : eng.policies[id].class = "Deny"})

RECURSIVE collect_triggers(_, _, _, _)
collect_triggers(eng, policy_triggers, p, ctx) ==
    IF policy_triggers = <<>> THEN ctx
    ELSE LET policy_trigger == Head(policy_triggers)
             next == IF trigger_applies(policy_trigger, p)
                     THEN register_policies(eng, policy_trigger, ctx)
                     ELSE ctx
         IN collect_triggers(eng, Tail(policy_triggers), p, next)

collect_applicable(eng, attr, p, ctx) ==
    IF attr \notin DOMAIN eng.trigger_groups THEN ctx
    ELSE collect_triggers(eng, eng.trigger_groups[attr], p, ctx)

\* The two for loops of eval over subject_attrs and resource_attrs.
RECURSIVE collect_all(_, _, _, _)
collect_all(eng, attrs, p, ctx) ==
    IF attrs = {} THEN ctx
    ELSE LET attr == CHOOSE a \in attrs : TRUE
         IN collect_all(eng, attrs \ {attr}, p, collect_applicable(eng, attr, p, ctx))

\* What eval and eval_policies_disjunctive return: the value ("Allow",
\* "Deny", "true", "false", or the error "Program" / "Type", or "Panic"),
\* the tracer afterwards, and the policies eval_policy was run on, in order.
Outcome(value, t, ev) == [value |-> value, tracer |-> t, evaluated |-> ev]

IsError(value) == value \in {"Program", "Type", "Panic"}

\* A faulty disjunction: a policy whose evaluation fails is passed over
\* instead of ending the call with its error.
RECURSIVE eval_policies_disjunctive_skip(_, _, _, _, _)
eval_policies_disjunctive_skip(eng, visit, p, t, ev) ==
    IF visit = <<>> THEN Outcome("false", t, ev)
    ELSE LET policy_id == Head(visit)
             t1 == report_policy_eval_start(t, policy_id)
             value == eval_policy(eng.policies[policy_id].bytecode, p)
             ev1 == Append(ev, policy_id)
         IN IF IsError(value) THEN eval_policies_disjunctive_skip(eng, Tail(visit), p, t1, ev1)
            ELSE LET t2 == report_policy_eval_end(t1, value)
                 IN IF value = "true" THEN Outcome("true", t2, ev1)
                    ELSE eval_policies_disjunctive_skip(eng, Tail(visit), p, t2, ev1)

\* A faulty disjunction: the value of a policy is taken from what the tracer
\* kept of it, so a tracer that keeps nothing makes every policy false.
RECURSIVE eval_policies_disjunctive_traced(_, _, _, _, _)
eval_policies_disjunctive_traced(eng, visit, p, t, ev) ==
    IF visit = <<>> THEN Outcome("false", t, ev)
    ELSE LET policy_id == Head(visit)
             t1 == report_policy_eval_start(t, policy_id)
             value == eval_policy(eng.policies[policy_id].bytecode, p)
             ev1 == Append(ev, policy_id)
         IN IF IsError(value) THEN Outcome(value, t1, ev1)
            ELSE LET t2 == report_policy_eval_end(t1, value)
                     kept == t2.log # <<>> /\ t2.log[Len(t2.log)] = <<"end", "true">>
                 IN IF kept THEN Outcome("true", t2, ev1)
                    ELSE eval_policies_disjunctive_traced(eng, Tail(visit), p, t2, ev1)

\* eval_policies_disjunctive: visit is the iteration order of the map.
RECURSIVE eval_policies_disjunctive(_, _, _, _, _)
eval_policies_disjunctive(eng, visit, p, t, ev) ==
    IF visit = <<>> THEN Outcome("false", t, ev)
    ELSE LET policy_id == Head(visit)
             t1 == report_policy_eval_start(t, policy_id)
             value == eval_policy(eng.policies[policy_id].bytecode, p)
             ev1 == Append(ev, policy_id)
         IN IF IsError(value) THEN Outcome(value, t1, ev1)
            ELSE LET t2 == report_policy_eval_end(t1, value)
                 IN IF value = "true" THEN Outcome("true", t2, ev1)
                    ELSE eval_policies_disjunctive(eng, Tail(visit), p, t2, ev1)

\* The iteration order of a hash map with the given keys: order lists every
\* policy id once, the map yields its keys in that order.
VisitOrder(order, keys) == SelectSeq(order, LAMBDA id : id \in keys)

\* A faulty fallback: Deny whatever the attributes are.
eval_fallback_deny(p, t) == Outcome("Deny", t, <<>>)

\* match arm (false, false) of eval
eval_fallback(p, t) ==
    Outcome(PolicyValueFrom(\E subj_attr \in p.subject_attrs : subj_attr \in p.resource_attrs),
            t, <<>>)

\* Ok(PolicyValue::from(is_allow)) / the error of the `?`
allow_result(r) ==
    IF IsError(r.value) THEN r
    ELSE [r EXCEPT !.value = PolicyValueFrom(r.value = "true")]

\* Ok(PolicyValue::from(!is_deny)) / the error of the `?`
deny_result(r) ==
    IF IsError(r.value) THEN r
    ELSE [r EXCEPT !.value = PolicyValueFrom(~(r.value = "true"))]

\* A faulty (true, false) arm: the value is negated as in the deny arm.
eval_allow_only_negated(eng, ctx, p, t, order) ==
    deny_result(
        eval_policies_disjunctive(eng, VisitOrder(order, ctx.applicable_allow), p, t, <<>>))

\* match arm (true, false) of eval
eval_allow_only(eng, ctx, p, t, order) ==
    allow_result(
        eval_policies_disjunctive(eng, VisitOrder(order, ctx.applicable_allow), p, t, <<>>))

\* A faulty (false, true) arm: the value is not negated.
eval_deny_only_unnegated(eng, ctx, p, t, order) ==
    allow_result(
        eval_policies_disjunctive(eng, VisitOrder(order, ctx.applicable_deny), p, t, <<>>))

\* A faulty (false, true) arm: Deny only when every applicable Deny-class
\* policy is true.
eval_deny_only_conjunctive(eng, ctx, p, t, order) ==
    LET values == {eval_policy(eng.policies[id].bytecode, p) : id \in ctx.applicable_deny}
    IN IF \E v \in values : IsError(v)
       THEN Outcome(CHOOSE v \in values : IsError(v), t, <<>>)
       ELSE Outcome(PolicyValueFrom(values # {"true"}), t, <<>>)

\* match arm (false, true) of eval
eval_deny_only(eng, ctx, p, t, order) ==
    deny_result(
        eval_policies_disjunctive(eng, VisitOrder(order, ctx.applicable_deny), p, t, <<>>))

\* A faulty (true, true) arm: the deny bucket is never evaluated.
eval_allow_deny_rest_no_deny(eng, ctx, p, order, a) == allow_result(a)

\* match arm (true, true) of eval, after the allow bucket was evaluated to a
eval_allow_deny_rest(eng, ctx, p, order, a) ==
    IF IsError(a.value) THEN a
    ELSE IF a.value # "true" THEN [a EXCEPT !.value = "Deny"]
    ELSE deny_result(
            eval_policies_disjunctive(eng, VisitOrder(order, ctx.applicable_deny),
                                      p, a.tracer, a.evaluated))

\* match arm (true, true) of eval
eval_allow_deny(eng, ctx, p, t, order) ==
    eval_allow_deny_rest(eng, ctx, p, order,
        eval_policies_disjunctive(eng, VisitOrder(order, ctx.applicable_allow), p, t, <<>>))

\* The EvalCtx eval works with after its two collecting loops.
collect(eng, p) ==
    collect_all(eng, p.resource_attrs, p,
                collect_all(eng, p.subject_attrs, p, EvalCtx({}, {})))

\* eval, from the tracer reports on
eval_match(eng, eval_ctx, p, t, order) ==
    LET t1 == report_applicable(t, "Deny", eval_ctx.applicable_deny)
        t2 == report_applicable(t1, "Allow", eval_ctx.applicable_allow)
        has_allow == eval_ctx.applicable_allow # {}
        has_deny == eval_ctx.applicable_deny # {}
    IN IF ~has_allow /\ ~has_deny THEN eval_fallback(p, t2)
       ELSE IF has_allow /\ ~has_deny THEN eval_allow_only(eng, eval_ctx, p, t2, order)
       ELSE IF ~has_allow /\ has_deny THEN eval_deny_only(eng, eval_ctx, p, t2, order)
       ELSE eval_allow_deny(eng, eval_ctx, p, t2, order)

\* PolicyEngine::eval
eval(eng, p, t, order) == eval_match(eng, collect(eng, p), p, t, order)

-----------------------------------------------------------------------------
(* The engine as a state machine: add_policy, add_trigger and eval calls *)

AccessControlParams(subject_eids, subject_attrs, resource_eids, resource_attrs) ==
    [subject_eids |-> subject_eids, subject_attrs |-> subject_attrs,
     resource_eids |-> resource_eids, resource_attrs |-> resource_attrs]

\* AccessControlParams::default()
DefaultParams == AccessControlParams(EmptyMap, {}, EmptyMap, {})

\* The bytecode of the policies the model adds: always true, always false,
\* a Return on an empty stack (Type error), and code that ends without
\* Return (Program error).
PolTrue == <<LoadSubjectAttrs, LoadSubjectAttrs, SupersetOf, Return>>
PolFalse == <<LoadSubjectAttrs, LoadSubjectAttrs, SupersetOf, Not, Return>>
PolTypeError == <<Return>>
PolProgramError == <<LoadSubjectAttrs>>
Programs == {PolTrue, PolFalse, PolTypeError, PolProgramError}

\* Every iteration order a hash map over the policy ids can have.
Orders ==
    {o \in [1..Cardinality(PolicyIds) -> PolicyIds] :
        \A i, j \in DOMAIN o : i # j => o[i] # o[j]}

CurEngine == Engine(policies, trigger_groups)

IdleMachine == Machine(<<>>, <<>>, "idle")

Init ==
    /\ policies = EmptyMap
    /\ trigger_groups = EmptyMap
    /\ params = DefaultParams
    /\ result = "none"
    /\ evaluated = <<>>
    /\ tracer = NoOpPolicyTracer
    /\ ops = <<>>
    /\ program = <<>>
    /\ mach = IdleMachine
    /\ NoMapping
    /\ NoClient
    /\ NoId

\* eval borrows the engine, so a recorded call ends before the engine is next
\* changed: the record of the last call is cleared by every mutation.
ClearCall ==
    /\ params' = DefaultParams
    /\ result' = "none"
    /\ evaluated' = <<>>
    /\ tracer' = NoOpPolicyTracer

AddPolicy ==
    \E id \in PolicyIds, class \in PolicyValues, bytecode \in Programs :
        /\ policies' = add_policy(CurEngine, id, class, bytecode).policies
        /\ UNCHANGED trigger_groups
        /\ ClearCall
        /\ UNCHANGED <<codeVars, mappingVars, clientVars, idVars>>

AddTrigger ==
    \E attr_matcher \in SUBSET AttrIds, policy_ids \in SUBSET PolicyIds :
        /\ get_trigger_count(CurEngine) < MaxTriggers
        /\ trigger_groups' = add_trigger(CurEngine, attr_matcher, policy_ids).trigger_groups
        /\ UNCHANGED policies
        /\ ClearCall
        /\ UNCHANGED <<codeVars, mappingVars, clientVars, idVars>>

Eval ==
    \E sa \in SUBSET AttrIds, ra \in SUBSET AttrIds, order \in Orders :
        LET p == AccessControlParams(EmptyMap, sa, EmptyMap, ra)
        IN \E r \in {eval(CurEngine, p, RecordingTracer, order)} :
           /\ params' = p
           /\ result' = r.value
           /\ evaluated' = r.evaluated
           /\ tracer' = r.tracer
           /\ UNCHANGED <<policies, trigger_groups>>
           /\ UNCHANGED <<codeVars, mappingVars, clientVars, idVars>>

Next == AddPolicy \/ AddTrigger \/ Eval

Spec == Init /\ [][Next]_vars

-----------------------------------------------------------------------------
(* Bytecode as a state machine: an instruction sequence is turned into     *)
(* bytes, by to_bytecode or already in the layout eval_policy reads, and    *)
(* eval_policy runs on the bytes one loop iteration at a time               *)

Id0 == from_uint(0)
Id1 == from_uint(1)
Id200 == from_uint(200)

\* The request eval_policy runs against: the subject has one entity id and
\* one attribute, the resource has no entity id and two attributes.
CodeParams ==
    AccessControlParams(Id0 :> <<KindPersona, Id0>>, {Id0}, EmptyMap, {Id0, Id1})

Simple(op) == OpCode(op, 0, <<>>)

\* Values of enum OpCode.
OpCodes ==
    {OpCode(LoadSubjectId, 0, Id0), OpCode(LoadResourceId, 0, Id0),
     OpCode(LoadConstAttrId, 0, Id0), OpCode(LoadConstAttrId, 0, Id200),
     OpCode(LoadConstEntityId, KindPersona, Id0)}
    \cup {Simple(op) : op \in {LoadSubjectAttrs, LoadResourceAttrs, IsEq, SupersetOf,
                               IdSetContains, And, Or, Not, Return}}

\* Instructions only raw bytes can hold: an entity constant of a kind outside
\* the Entity subset, one whose kind byte is no Kind, and a byte that is no
\* opcode.
InvalidKind == KindDirectory + 2
RawOnly ==
    {OpCode(LoadConstEntityId, KindDomain, Id0),
     OpCode(LoadConstEntityId, InvalidKind, Id0),
     NoInstr}

OpSeqsOf(letters) == UNION {[1..n -> letters] : n \in 0..MaxOps}

\* The bytes of one instruction in the layout eval_policy reads: the opcode
\* byte, the kind byte of LoadConstEntityId, the immediate as 16 big-endian
\* bytes.
raw_instr(opcode) ==
    IF opcode.op = LoadConstEntityId THEN <<opcode.op, opcode.kind>> \o opcode.id
    ELSE <<opcode.op>> \o opcode.id

RECURSIVE raw_bytecode(_)
raw_bytecode(opcodes) ==
    IF opcodes = <<>> THEN <<>>
    ELSE raw_instr(Head(opcodes)) \o raw_bytecode(Tail(opcodes))

\* How many bytes a caller cuts off the end of raw bytecode.
Drops == {0, 1, 17}

InitCode ==
    /\ policies = EmptyMap
    /\ trigger_groups = EmptyMap
    /\ params = DefaultParams
    /\ result = "none"
    /\ evaluated = <<>>
    /\ tracer = NoOpPolicyTracer
    /\ ops \in OpSeqsOf(OpCodes \cup RawOnly)
    /\ program = <<>>
    /\ mach = IdleMachine
    /\ NoMapping
    /\ NoClient
    /\ NoId

\* to_bytecode(ops), handed to eval_policy.
Compile ==
    /\ mach.out = "idle"
    /\ \A i \in DOMAIN ops : ops[i] \in OpCodes
    /\ program' = to_bytecode(ops)
    /\ mach' = Machine(program', <<>>, "running")
    /\ UNCHANGED ops
    /\ UNCHANGED <<engineVars, mappingVars, clientVars, idVars>>

\* Bytes in the evaluator's own layout, possibly cut short, handed to
\* eval_policy.
LoadRaw ==
    \E drop \in Drops :
        /\ mach.out = "idle"
        /\ drop <= Len(raw_bytecode(ops))
        /\ program' = SubSeq(raw_bytecode(ops), 1, Len(raw_bytecode(ops)) - drop)
        /\ mach' = Machine(program', <<>>, "running")
        /\ UNCHANGED ops
        /\ UNCHANGED <<engineVars, mappingVars, clientVars, idVars>>

\* One iteration of the loop of eval_policy.
Step ==
    /\ mach.out = "running"
    /\ mach' = step_policy(mach, CodeParams)
    /\ UNCHANGED <<ops, program>>
    /\ UNCHANGED <<engineVars, mappingVars, clientVars, idVars>>

NextCode == Compile \/ LoadRaw \/ Step

SpecCode == InitCode /\ [][NextCode]_vars

-----------------------------------------------------------------------------
(* Properties of PolicyEngine::eval, checked under Spec *)

\* The attributes of a request, the triggers of an engine, and the policies
\* of a class that the triggers select for a request, stated from the
\* request and the engine alone.
RequestAttrs(p) == p.subject_attrs \cup p.resource_attrs

TriggersOf(eng) ==
    UNION {{eng.trigger_groups[k][i] : i \in DOMAIN eng.trigger_groups[k]} :
            k \in DOMAIN eng.trigger_groups}

Selected(eng, p, class) ==
    {id \in DOMAIN eng.policies :
        /\ eng.policies[id].class = class
        /\ \E tr \in TriggersOf(eng) :
            /\ id \in tr.policy_ids
            /\ tr.attr_matcher # {}
            /\ tr.attr_matcher \subseteq RequestAttrs(p)}

AllowBucket == Selected(CurEngine, params, "Allow")
DenyBucket == Selected(CurEngine, params, "Deny")

\* What eval_policy makes of a policy of the engine on the recorded request.
Truth(id) == eval_policy(policies[id].bytecode, params)
SomeTrue(bucket) == \E id \in bucket : Truth(id) = "true"
SomeFails(bucket) == \E id \in bucket : IsError(Truth(id))

Called == result # "none"
Decided == result \in PolicyValues

\* C1: with both buckets non-empty and no policy evaluation failing, eval
\* returns Deny if no allow policy is true, else Deny if some deny policy is
\* true, else Allow.
C1_AllowDenyCombination ==
    (Decided /\ AllowBucket # {} /\ DenyBucket # {}) =>
        result = IF ~SomeTrue(AllowBucket) THEN "Deny"
                 ELSE IF SomeTrue(DenyBucket) THEN "Deny"
                 ELSE "Allow"

C1_Witness ==
    /\ result = "Allow"
    /\ AllowBucket # {} /\ DenyBucket # {}
    /\ Len(evaluated) = 2

\* C2: with both buckets empty, eval returns Allow iff the subject and the
\* resource share an attribute, and Deny otherwise.
C2_Fallback ==
    (Called /\ AllowBucket = {} /\ DenyBucket = {}) =>
        result = IF params.subject_attrs \cap params.resource_attrs # {}
                 THEN "Allow" ELSE "Deny"

C2_Witness ==
    /\ result = "Allow"
    /\ AllowBucket = {} /\ DenyBucket = {}
    /\ TriggersOf(CurEngine) # {}
    /\ policies # EmptyMap

C5_Applicable ==
    Called =>
        /\ tracer.log[1] = <<"applicable", "Deny", DenyBucket>>
        /\ tracer.log[2] = <<"applicable", "Allow", AllowBucket>>

\* A trigger of two attributes of which the request has only the one the
\* trigger is not filed under, targeting a policy of the engine.
C5_Witness ==
    /\ Called
    /\ \E tr \in TriggersOf(CurEngine) :
        /\ Cardinality(tr.attr_matcher) > 1
        /\ tr.attr_matcher \cap RequestAttrs(params) # {}
        /\ FirstOf(tr.attr_matcher) \notin RequestAttrs(params)
        /\ tr.policy_ids \cap DOMAIN policies # {}
    /\ AllowBucket = {} /\ DenyBucket = {}

\* The engine without the policies that fail to evaluate on the request.
WithoutFailing(eng, p) ==
    Engine([id \in {i \in DOMAIN eng.policies :
                        ~IsError(eval_policy(eng.policies[i].bytecode, p))}
                |-> eng.policies[id]],
           eng.trigger_groups)

C8_TracerIndependent ==
    Called =>
        /\ \A order \in Orders :
            LET quiet == eval(CurEngine, params, NoOpPolicyTracer, order)
                traced == eval(CurEngine, params, RecordingTracer, order)
            IN quiet.value = traced.value /\ quiet.evaluated = traced.evaluated
        /\ \E order \in Orders :
            LET quiet == eval(CurEngine, params, NoOpPolicyTracer, order)
            IN quiet.value = result /\ quiet.evaluated = evaluated

\* A call in which the tracer was told of two policy evaluations and the
\* outcome was Allow.
C8_Witness ==
    /\ result = "Allow"
    /\ Len(evaluated) = 2
    /\ Len(tracer.log) = 6

-----------------------------------------------------------------------------
(* Properties of to_bytecode and eval_policy, checked under SpecCode *)

\* The evaluator's reading of instructions applied to a whole byte string,
\* without executing them: the instructions read, and whether the reading
\* reached the end of the bytes without an error.
RECURSIVE decode_all(_)
decode_all(bytes) ==
    IF bytes = <<>> THEN [ok |-> TRUE, instrs |-> <<>>]
    ELSE LET d == decode_instr(bytes)
         IN IF d.status # "ok" THEN [ok |-> FALSE, instrs |-> <<>>]
            ELSE LET more == decode_all(d.rest)
                 IN [ok |-> more.ok, instrs |-> <<d.instr>> \o more.instrs]

Compiled ==
    /\ mach.out # "idle"
    /\ \A i \in DOMAIN ops : ops[i] \in OpCodes
    /\ program = to_bytecode(ops)

\* C9: the evaluator's instruction decoder reads the bytes of to_bytecode(ops)
\* back as exactly ops, with no byte left over.
C9_RoundTrip ==
    Compiled => decode_all(program) = [ok |-> TRUE, instrs |-> ops]

Finished == mach.out \notin {"idle", "running"}

\* The instruction at the head of pc takes an immediate and pc ends before
\* the immediate does (for LoadConstEntityId: before the kind byte, or after
\* a kind byte that is a Kind).
ImmediateCutShort(pc) ==
    /\ pc # <<>>
    /\ \/ Head(pc) \in {LoadSubjectId, LoadResourceId, LoadConstAttrId} /\ Len(pc) < 17
       \/ /\ Head(pc) = LoadConstEntityId
          /\ Len(pc) < 2 \/ (KindValid(pc[2]) /\ Len(pc) < 18)

\* Some instruction of the bytes, read one after the other, is an unknown
\* opcode byte.
RECURSIVE HasUnknownOpcode(_)
HasUnknownOpcode(bytes) ==
    IF bytes = <<>> THEN FALSE
    ELSE \/ ~BytecodeValid(Head(bytes))
         \/ LET d == decode_instr(bytes) IN d.status = "ok" /\ HasUnknownOpcode(d.rest)

\* Some instruction of the bytes, read one after the other, is cut short.
RECURSIVE HasCutShort(_)
HasCutShort(bytes) ==
    IF bytes = <<>> THEN FALSE
    ELSE \/ ImmediateCutShort(bytes)
         \/ LET d == decode_instr(bytes) IN d.status = "ok" /\ HasCutShort(d.rest)

-----------------------------------------------------------------------------
(* service.rs: NamespacePropertyMapping, three layers of HashMap            *)

LabelNames == <<"a", "b", "c">>
NamespaceLabels == {LabelNames[i] : i \in 1..(MaxNamespace + 1)}
PropertyLabels == {LabelNames[i] : i \in 1..(MaxProperty + 1)}
AttributeLabels == {LabelNames[i] : i \in 1..(MaxAttribute + 1)}

\* impl NamespacedPropertyAttribute for (&str, &str, &str)
Labels == NamespaceLabels \X PropertyLabels \X AttributeLabels
namespace(attr) == attr[1]
property(attr) == attr[2]
attribute(attr) == attr[3]

\* derive(Default): no namespaces.
DefaultMapping == EmptyMap

\* HashMap::entry(key).or_default()
or_default(map, key) == IF key \in DOMAIN map THEN map ELSE (key :> EmptyMap) @@ map

\* NamespacePropertyMapping::namespace_mut: the namespaces after the call.
namespace_mut(namespaces, namespace_label) == or_default(namespaces, namespace_label)

\* PropertyMappings::property_mut: the properties after the call.
property_mut(properties, property_label) == or_default(properties, property_label)

\* A put that keeps the id already stored under the label.
put_keep_first(attributes, attribute_label, attribute_id) ==
    IF attribute_label \in DOMAIN attributes
    THEN attributes
    ELSE (attribute_label :> attribute_id) @@ attributes

\* AttributeMappings::put: entry(label).insert_entry(id) stores the id whether
\* or not the label was there.
put(attributes, attribute_label, attribute_id) ==
    (attribute_label :> attribute_id) @@ attributes

\* namespaces.namespace_mut(ns).property_mut(prop): the whole mapping after it.
with_property(namespaces, ns, prop) ==
    [namespace_mut(namespaces, ns) EXCEPT ![ns] = property_mut(@, prop)]

\* namespaces.namespace_mut(ns).property_mut(prop).put(attr, id)
with_attribute(namespaces, ns, prop, attr, id) ==
    [with_property(namespaces, ns, prop) EXCEPT ![ns][prop] = put(@, attr, id)]

\* Option: None, Some(value)
None == {}
Some(value) == {value}

\* NamespacePropertyMapping::attribute_object_id: `?` on each of the two outer
\* lookups, then the Option of the innermost.
attribute_object_id(namespaces, attr) ==
    IF namespace(attr) \notin DOMAIN namespaces THEN None
    ELSE IF property(attr) \notin DOMAIN namespaces[namespace(attr)] THEN None
    ELSE IF attribute(attr) \notin DOMAIN namespaces[namespace(attr)][property(attr)] THEN None
    ELSE Some(namespaces[namespace(attr)][property(attr)][attribute(attr)])

\* NamespacePropertyMapping::translate: one loop iteration per triple, `continue`
\* at the first layer that lacks the label.
RECURSIVE translate_loop(_, _, _)
translate_loop(namespaces, attributes, output) ==
    IF attributes = <<>> THEN output
    ELSE LET t == Head(attributes)
             rest == Tail(attributes)
         IN IF t[1] \notin DOMAIN namespaces
            THEN translate_loop(namespaces, rest, output)
            ELSE IF t[2] \notin DOMAIN namespaces[t[1]]
            THEN translate_loop(namespaces, rest, output)
            ELSE IF t[3] \notin DOMAIN namespaces[t[1]][t[2]]
            THEN translate_loop(namespaces, rest, output)
            ELSE translate_loop(namespaces, rest,
                                output \cup {namespaces[t[1]][t[2]][t[3]]})

translate(namespaces, attributes) == translate_loop(namespaces, attributes, {})

-----------------------------------------------------------------------------
(* A property mapping as a state machine: namespace_mut, property_mut, put  *)
(* and translate calls on one NamespacePropertyMapping                      *)

TripleSeqs == UNION {[1..n -> Labels] : n \in 0..MaxTriples}

InitMapping ==
    /\ policies = EmptyMap
    /\ trigger_groups = EmptyMap
    /\ params = DefaultParams
    /\ result = "none"
    /\ evaluated = <<>>
    /\ tracer = NoOpPolicyTracer
    /\ ops = <<>>
    /\ program = <<>>
    /\ mach = IdleMachine
    /\ mapping = DefaultMapping
    /\ mapping_call = NoCall
    /\ NoClient
    /\ NoId

NamespaceMut ==
    \E ns \in NamespaceLabels :
        /\ mapping' = namespace_mut(mapping, ns)
        /\ mapping_call' = [op |-> "namespace_mut"]
        /\ UNCHANGED <<engineVars, codeVars, clientVars, idVars>>

PropertyMut ==
    \E ns \in NamespaceLabels, prop \in PropertyLabels :
        /\ mapping' = with_property(mapping, ns, prop)
        /\ mapping_call' = [op |-> "property_mut"]
        /\ UNCHANGED <<engineVars, codeVars, clientVars, idVars>>

Put ==
    \E attr \in Labels, id \in AttrIds :
        /\ mapping' = with_attribute(mapping, attr[1], attr[2], attr[3], id)
        /\ mapping_call' = [op |-> "put", attr |-> attr, id |-> id]
        /\ UNCHANGED <<engineVars, codeVars, clientVars, idVars>>

Translate ==
    \E attributes \in TripleSeqs :
        /\ mapping_call' = [op |-> "translate", attributes |-> attributes,
                            output |-> translate(mapping, attributes)]
        /\ UNCHANGED mapping
        /\ UNCHANGED <<engineVars, codeVars, clientVars, idVars>>

NextMapping == NamespaceMut \/ PropertyMut \/ Put \/ Translate

SpecMapping == InitMapping /\ [][NextMapping]_vars

-----------------------------------------------------------------------------
(* Properties of NamespacePropertyMapping, checked under SpecMapping *)

\* The requested triples that are stored in the mapping.
Present(attributes) ==
    {t \in {attributes[i] : i \in DOMAIN attributes} :
        /\ t[1] \in DOMAIN mapping
        /\ t[2] \in DOMAIN mapping[t[1]]
        /\ t[3] \in DOMAIN mapping[t[1]][t[2]]}

\* C20: whatever namespace_mut / property_mut / put calls built the mapping,
\* translate returns exactly the ids stored for the requested triples that are
\* present, a set of AttrIds in every case (it has no failure outcome), with
\* nothing for the unknown triples; and right after put(label, id) the label
\* holds id, whatever it held before (the last put wins).
C20_Translate ==
    /\ (mapping_call.op = "translate") =>
          /\ mapping_call.output = {mapping[t[1]][t[2]][t[3]] : t \in Present(mapping_call.attributes)}
          /\ mapping_call.output \subseteq AttrIds
    /\ (mapping_call.op = "put") =>
          /\ attribute_object_id(mapping, mapping_call.attr) = Some(mapping_call.id)
          /\ translate(mapping, <<mapping_call.attr>>) = {mapping_call.id}

\* A translate call given a stored triple and an unknown one.
C20_Witness ==
    /\ mapping_call.op = "translate"
    /\ Len(mapping_call.attributes) = 2
    /\ Cardinality(Present(mapping_call.attributes)) = 1
    /\ Cardinality(mapping_call.output) = 1

-----------------------------------------------------------------------------
(* authly-client: the values the client works with                          *)

Ok(value) == [ok |-> TRUE, value |-> value]
Err(error) == [ok |-> FALSE, error |-> error]

\* ConnectionParams are told apart by an index; Connection holds the params it
\* was made from.
ParamsIds == 0..MaxParams
Connection(connection_params) == [params |-> connection_params]

\* ReconfigureStrategy
ReInfer == [kind |-> "ReInfer", params |-> {}]
Params(connection_params) == [kind |-> "Params", params |-> {connection_params}]

\* ReconfigureStrategy::new_connection_params: the results it can produce.
\* ReInfer reads the environment again, which may fail or hold other parameters.
new_connection_params(strategy) ==
    IF strategy.kind = "ReInfer"
    THEN {Ok(cp) : cp \in ParamsIds} \cup {Err("EnvironmentNotInferrable")}
    ELSE {Ok(cp) : cp \in strategy.params}

\* A make_connection that hands back a connection of the first parameters.
make_connection_first(connection_params) ==
    {Ok(Connection(0)), Err("Unclassified")}

\* error::network and error::unclassified: the Error variant each builds.
network(err) == Err("Unauthorized")
unclassified(err) == Err("Unclassified")

\* What can go wrong in make_connection: the url is no URI
\* (Endpoint::from_shared), the TLS configuration is refused
\* (Endpoint::tls_config), the endpoint is not reached (connect).
Faults == {"none", "InvalidUri", "TlsConfig", "Connect"}

\* make_connection when the given thing goes wrong.
make_connection_outcome(connection_params, fault) ==
    IF fault \in {"InvalidUri", "TlsConfig"} THEN network(fault)
    ELSE IF fault = "Connect" THEN unclassified(fault)
    ELSE Ok(Connection(connection_params))

\* make_connection: every result it can have.
make_connection(connection_params) ==
    {make_connection_outcome(connection_params, fault) : fault \in Faults}

\* What the authority can reply with its property mapping: namespaces holding
\* properties holding (label, obj_id) attributes.  The second reply names one
\* label twice and lacks the label "b".
ProtoAttribute(label, obj_id) == [label |-> label, obj_id |-> obj_id]
ProtoProperty(label, attributes) == [label |-> label, attributes |-> attributes]
ProtoNamespace(label, properties) == [label |-> label, properties |-> properties]
ProtoReplies ==
    << <<ProtoNamespace("a", <<ProtoProperty("a",
            <<ProtoAttribute("a", Ok(from_uint(0))), ProtoAttribute("b", Ok(from_uint(1)))>>)>>)>>,
       <<ProtoNamespace("a", <<ProtoProperty("a",
            <<ProtoAttribute("a", Ok(from_uint(0))), ProtoAttribute("a", Ok(from_uint(1)))>>)>>)>> >>

\* access_control::get_resource_property_mapping: the three nested loops; an
\* obj_id that is no AttrId ends the function with the codec error.
RECURSIVE put_attributes(_, _, _, _)
put_attributes(acc, ns, prop, attributes) ==
    IF ~acc.ok \/ attributes = <<>> THEN acc
    ELSE LET a == Head(attributes)
         IN IF ~a.obj_id.ok
            THEN Err("Codec")
            ELSE put_attributes(Ok(with_attribute(acc.value, ns, prop, a.label, a.obj_id.value)),
                                ns, prop, Tail(attributes))

RECURSIVE put_properties(_, _, _)
put_properties(acc, ns, properties) ==
    IF ~acc.ok \/ properties = <<>> THEN acc
    ELSE put_properties(
            put_attributes(Ok(with_property(acc.value, ns, Head(properties).label)),
                           ns, Head(properties).label, Head(properties).attributes),
            ns, Tail(properties))

RECURSIVE put_namespaces(_, _)
put_namespaces(acc, proto_namespaces) ==
    IF ~acc.ok \/ proto_namespaces = <<>> THEN acc
    ELSE put_namespaces(
            put_properties(Ok(namespace_mut(acc.value, Head(proto_namespaces).label)),
                           Head(proto_namespaces).label, Head(proto_namespaces).properties),
            Tail(proto_namespaces))

get_resource_property_mapping(proto_namespaces) ==
    put_namespaces(Ok(DefaultMapping), proto_namespaces)

-----------------------------------------------------------------------------
(* authly-client: tokio::sync::watch channels as the client uses them       *)

Unit == "()"

\* watch::channel(init): one value, a version, and whether the Sender lives.
watch_channel(init) == [value |-> init, version |-> 0, tx |-> TRUE]

\* Sender::send: stores the value and bumps the version; with no Receiver left
\* it stores nothing and returns the error the callers only log.
watch_send(ch, value, receivers) ==
    IF receivers THEN [ch EXCEPT !.value = value, !.version = @ + 1] ELSE ch

\* Dropping the Sender.
watch_drop_sender(ch) == [ch EXCEPT !.tx = FALSE]

\* Receiver::changed for a receiver that has seen `seen`: a version not seen
\* yet is reported first, a dropped Sender after that, else the call pends.
changed(ch, seen) ==
    IF ch.version # seen THEN "Ok" ELSE IF ~ch.tx THEN "Err" ELSE "Pending"

-----------------------------------------------------------------------------
(* authly-client: ClientState and the background worker                     *)

\* ClientState; `alive` turns FALSE when the last Arc<ClientState> is dropped.
\* Its two receivers are never updated; its closed_tx is the variable `closed`.
ClientState(conn, reconfigure, resource_property_mapping) ==
    [alive |-> TRUE, conn |-> conn, reconfigure |-> reconfigure,
     resource_property_mapping |-> resource_property_mapping]

\* The server-pushed message stream, opened on a connection; `live` turns FALSE
\* when it has yielded end-of-stream or a transport error.
Streaming(conn) == [conn |-> conn, live |-> TRUE]

\* The worker task: where it is suspended, what its closed_rx has seen, its
\* msg_stream, and the `params` local of try_reconfigure (a set: none or one).
\* A worker that is not "done" owns an Arc<ClientState> and the WorkerSenders.
Worker(pc, closed_seen, msg_stream, local_params) ==
    [pc |-> pc, closed_seen |-> closed_seen, msg_stream |-> msg_stream, params |-> local_params]

WorkerRuns == worker.pc # "done"

\* The refresh stream and the request builder of the caller task, absent.
NoStream == [kind |-> "none", pc |-> "none", seen |-> 0, item |-> {}, last |-> {}, yields |-> 0]
NoBuilder ==
    [state |-> "none", property_mapping |-> EmptyMap, access_token |-> {},
     resource_attributes |-> {}, label |-> {}, call |-> "none", response |-> {},
     result |-> {}]

\* StreamState of metadata_stream and the closures of rustls_server_configurer
\* own a Client clone.
StreamHoldsClient(st) ==
    \/ st.kind = "rustls"
    \/ st.kind = "metadata" /\ st.pc \in {"initial", "rotation", "refresh"}

\* A caller's Client is borrowed while metadata_stream() or
\* rustls_server_configurer() awaits, and for as long as an
\* AccessControlRequestBuilder<'c> exists.
Borrowed(st, b) ==
    IF st.pc = "creating" \/ b.state = "building" THEN 1 ELSE 0

\* Strong count of the Arc<ClientState>.
StrongCount(h, w, st) ==
    h + (IF w.pc # "done" THEN 1 ELSE 0) + (IF StreamHoldsClient(st) THEN 1 ELSE 0)

\* Receivers of the two worker channels: those of ClientState and the clone a
\* stream owns.
ReconfiguredReceivers(cs, st) == cs.alive \/ st.kind \in {"params", "rustls"}
InvalidatedReceivers(cs, st) ==
    cs.alive \/ (st.kind = "metadata" /\ st.pc \in {"initial", "rotation", "refresh"})

\* impl Drop for ClientState, run when the strong count reaches zero: send on
\* closed_tx (an error when the worker's closed_rx is gone), then the fields,
\* closed_tx among them, are dropped.
drop_client_state(cs, closed_ch, w) ==
    [state |-> [cs EXCEPT !.alive = FALSE],
     closed |-> watch_drop_sender(watch_send(closed_ch, Unit, w.pc # "done"))]

\* The Arc bookkeeping of a step that leaves h handles, worker w and stream st.
Release(h, w, st) ==
    IF cstate.alive /\ StrongCount(h, w, st) = 0
    THEN /\ cstate' = drop_client_state(cstate, closed, w).state
         /\ closed' = drop_client_state(cstate, closed, w).closed
    ELSE UNCHANGED <<cstate, closed>>

\* What a fetch of the property mapping can return: the reply the authority
\* holds, turned into a mapping, or a network error.
FetchResults == {get_resource_property_mapping(ProtoReplies[authority.data]), Err("Network")}

\* A reload that sends the tick whether or not the fetch succeeded.
reload_local_cache_tick_always(cs, invalidated_tx, fetched, receivers) ==
    [state |-> IF fetched.ok THEN [cs EXCEPT !.resource_property_mapping = fetched.value]
               ELSE cs,
     metadata_invalidated_tx |-> watch_send(invalidated_tx, Unit, receivers)]

\* reload_local_cache: on Ok store the mapping and send the tick, on Err neither.
reload_local_cache(cs, invalidated_tx, fetched, receivers) ==
    IF fetched.ok
    THEN [state |-> [cs EXCEPT !.resource_property_mapping = fetched.value],
          metadata_invalidated_tx |-> watch_send(invalidated_tx, Unit, receivers)]
    ELSE [state |-> cs, metadata_invalidated_tx |-> invalidated_tx]

\* The state right after ClientBuilder::connect returned the Client.
InitClient ==
    /\ policies = EmptyMap
    /\ trigger_groups = EmptyMap
    /\ params = DefaultParams
    /\ result = "none"
    /\ evaluated = <<>>
    /\ tracer = NoOpPolicyTracer
    /\ ops = <<>>
    /\ program = <<>>
    /\ mach = IdleMachine
    /\ NoMapping
    /\ NoId
    /\ handles = 1
    /\ authority = [data |-> 1, sent |-> 0, delivered |-> "none", served |-> "none"]
    /\ \E reconfigure \in {ReInfer, Params(0)} :
          cstate = ClientState(Connection(0), reconfigure,
                               get_resource_property_mapping(ProtoReplies[1]).value)
    /\ worker = Worker("select", 0, Streaming(Connection(0)), {})
    /\ reconfigured = watch_channel(0)
    /\ metadata_invalidated = watch_channel(Unit)
    /\ closed = watch_channel(Unit)
    /\ stream = NoStream
    /\ builder = NoBuilder

otherVars == <<engineVars, codeVars, mappingVars, idVars>>

\* Client::clone
CloneClient ==
    /\ handles >= 1
    /\ handles < MaxHandles
    /\ handles' = handles + 1
    /\ UNCHANGED <<cstate, worker, reconfigured, metadata_invalidated, closed, stream,
                   builder, authority, otherVars>>

\* A caller drops a Client it is not using.
DropClient ==
    /\ handles > Borrowed(stream, builder)
    /\ handles' = handles - 1
    /\ Release(handles - 1, worker, stream)
    /\ UNCHANGED <<worker, reconfigured, metadata_invalidated, stream, builder,
                   authority, otherVars>>

\* The authority changes the data it serves.
AuthorityUpdate ==
    \E data \in DOMAIN ProtoReplies :
        /\ data # authority.data
        /\ authority' = [authority EXCEPT !.data = data]
        /\ UNCHANGED <<handles, cstate, worker, reconfigured, metadata_invalidated,
                       closed, stream, builder, otherVars>>

\* The worker leaves: its Arc<ClientState>, its senders and its receiver go.
WorkerExit(h, st) ==
    /\ worker' = [worker EXCEPT !.pc = "done", !.params = {}]
    /\ reconfigured' = watch_drop_sender(reconfigured)
    /\ metadata_invalidated' = watch_drop_sender(metadata_invalidated)
    /\ Release(h, worker', st)

\* The runtime that the worker was spawned on shuts down and drops the task.
RuntimeShutdown ==
    /\ WorkerRuns
    /\ WorkerExit(handles, stream)
    /\ UNCHANGED <<handles, stream, builder, authority, otherVars>>

MessageKinds == {"ReloadCa", "ReloadCache", "Ping", "NoKind", "End", "Error"}

\* select!: the branches that are ready.  closed_rx.changed() is ready once a
\* send on closed_tx was not seen yet or closed_tx is gone; msg_stream.message()
\* is ready when the authority delivers a message or the stream fails.
SelectReady ==
    (IF changed(closed, worker.closed_seen) # "Pending" THEN {"Closed"} ELSE {})
    \cup (IF worker.msg_stream.live /\ authority.sent < MaxMessages THEN MessageKinds ELSE {})

\* A handle_message that ends the worker when the stream ends or fails.
handle_message_exit_on_error(w, cs, invalidated_tx, kind, fetched, receivers) ==
    CASE kind = "ReloadCa" ->
            [worker |-> [w EXCEPT !.pc = "reconfigure"], state |-> cs,
             metadata_invalidated_tx |-> invalidated_tx]
      [] kind \in {"End", "Error"} ->
            [worker |-> [w EXCEPT !.pc = "done", !.msg_stream.live = FALSE],
             state |-> cs, metadata_invalidated_tx |-> invalidated_tx]
      [] kind = "ReloadCache" ->
            [worker |-> w] @@ reload_local_cache(cs, invalidated_tx, fetched, receivers)
      [] OTHER ->
            [worker |-> w, state |-> cs, metadata_invalidated_tx |-> invalidated_tx]

\* A handle_message that goes on selecting when the stream ends or fails.
handle_message_ignore_end(w, cs, invalidated_tx, kind, fetched, receivers) ==
    CASE kind = "ReloadCa" ->
            [worker |-> [w EXCEPT !.pc = "reconfigure"], state |-> cs,
             metadata_invalidated_tx |-> invalidated_tx]
      [] kind = "ReloadCache" ->
            [worker |-> w] @@ reload_local_cache(cs, invalidated_tx, fetched, receivers)
      [] OTHER ->
            [worker |-> w, state |-> cs, metadata_invalidated_tx |-> invalidated_tx]

\* handle_message_result and handle_message_kind, up to the first await of a
\* reconfigure: the worker, the shared state and the tick channel afterwards.
handle_message(w, cs, invalidated_tx, kind, fetched, receivers) ==
    CASE kind = "ReloadCa" ->
            [worker |-> [w EXCEPT !.pc = "reconfigure"], state |-> cs,
             metadata_invalidated_tx |-> invalidated_tx]
      [] kind \in {"End", "Error"} ->
            [worker |-> [w EXCEPT !.pc = "reconfigure", !.msg_stream.live = FALSE],
             state |-> cs, metadata_invalidated_tx |-> invalidated_tx]
      [] kind = "ReloadCache" ->
            [worker |-> w] @@ reload_local_cache(cs, invalidated_tx, fetched, receivers)
      [] OTHER ->
            [worker |-> w, state |-> cs, metadata_invalidated_tx |-> invalidated_tx]

\* background_worker: one iteration of the loop around select!.  The closed
\* branch returns; the message branch handles the message.
WorkerSelect ==
    \E branch \in SelectReady, fetched \in FetchResults :
        /\ worker.pc = "select"
        /\ branch # "ReloadCache" => fetched.ok
        /\ IF branch = "Closed"
           THEN /\ WorkerExit(handles, stream)
                /\ UNCHANGED authority
           ELSE LET r == handle_message(worker, cstate, metadata_invalidated, branch, fetched,
                                        InvalidatedReceivers(cstate, stream))
                IN /\ worker' = r.worker
                   /\ cstate' = r.state
                   /\ metadata_invalidated' = r.metadata_invalidated_tx
                   /\ authority' = [authority EXCEPT
                          !.sent = @ + 1, !.delivered = branch,
                          !.served = IF branch # "ReloadCache" THEN "none"
                                     ELSE IF fetched.ok THEN "Ok" ELSE "Err"]
                   /\ UNCHANGED <<reconfigured, closed>>
        /\ UNCHANGED <<handles, stream, builder, otherVars>>

\* try_reconfigure up to its second suspension: new_connection_params,
\* make_connection, and the store of the new connection.
TryReconfigure ==
    \E new_params \in new_connection_params(cstate.reconfigure) :
      \E connection \in (IF new_params.ok THEN make_connection(new_params.value)
                         ELSE {new_params}) :
        /\ worker.pc = "reconfigure"
        /\ IF connection.ok
           THEN /\ cstate' = [cstate EXCEPT !.conn = connection.value]
                /\ worker' = [worker EXCEPT !.pc = "init_message_stream",
                                            !.params = {new_params.value}]
           ELSE /\ worker' = [worker EXCEPT !.pc = "sleep"]
                /\ UNCHANGED cstate
        /\ UNCHANGED <<handles, reconfigured, metadata_invalidated, closed, stream,
                       builder, authority, otherVars>>

\* try_reconfigure: init_message_stream on the stored connection.
InitMessageStream ==
    \E opened \in BOOLEAN :
        /\ worker.pc = "init_message_stream"
        /\ IF opened
           THEN worker' = [worker EXCEPT !.pc = "reload", !.msg_stream = Streaming(cstate.conn)]
           ELSE worker' = [worker EXCEPT !.pc = "sleep", !.params = {}]
        /\ UNCHANGED <<handles, cstate, reconfigured, metadata_invalidated, closed, stream,
                       builder, authority, otherVars>>

\* try_reconfigure, the rest: reload_local_cache, then the new parameters are
\* sent on reconfigured_tx.
ReloadAndPublish ==
    \E fetched \in FetchResults, new_params \in worker.params :
        LET r == reload_local_cache(cstate, metadata_invalidated, fetched,
                                    InvalidatedReceivers(cstate, stream))
        IN /\ worker.pc = "reload"
           /\ cstate' = r.state
           /\ metadata_invalidated' = r.metadata_invalidated_tx
           /\ reconfigured' = watch_send(reconfigured, new_params,
                                         ReconfiguredReceivers(cstate, stream))
           /\ worker' = [worker EXCEPT !.pc = "select", !.params = {}]
           /\ UNCHANGED <<handles, closed, stream, builder, authority, otherVars>>

\* reconfigure_loop: the 10 s sleep is over, the next attempt starts.
RetryReconfigure ==
    /\ worker.pc = "sleep"
    /\ worker' = [worker EXCEPT !.pc = "reconfigure"]
    /\ UNCHANGED <<handles, cstate, reconfigured, metadata_invalidated, closed, stream,
                   builder, authority, otherVars>>

-----------------------------------------------------------------------------
(* authly-client: the refresh streams of lib.rs                             *)

Item(value, version) == [value |-> value, version |-> version]

\* A stream: which method made it, where its next poll resumes, the version
\* its watch receiver has seen, the item of its immediate part (a set: none or
\* one), the item it yielded last and how many it has yielded.
Stream(kind, pc, seen, item) ==
    [kind |-> kind, pc |-> pc, seen |-> seen, item |-> item, last |-> {}, yields |-> 0]

Yield(st, item) == [st EXCEPT !.last = {item}, !.yields = @ + 1]

\* connection_params_stream: clone the receiver, borrow_and_update, and chain
\* the immediate stream with the rotation stream.
connection_params_stream(ch) ==
    Stream("params", "initial", ch.version, {Item(ch.value, ch.version)})

\* rustls_server_configurer up to its await: the same, with the server config
\* of the initial parameters still to be built.
rustls_server_configurer(ch) ==
    Stream("rustls", "creating", ch.version, {Item(ch.value, ch.version)})

\* metadata_stream up to the end of its await: the first metadata is fetched,
\* the watch receiver is not cloned yet.
metadata_stream(metadata, ch) ==
    Stream("metadata", "creating", 0, {Item(metadata, ch.version)})

\* metadata_stream after the await: the receiver is cloned and mark_unchanged.
mark_unchanged(st, ch) == [st EXCEPT !.pc = "initial", !.seen = ch.version]

\* The immediate part of a stream: its one item.
poll_initial(st) ==
    [Yield(st, CHOOSE item \in st.item : TRUE) EXCEPT !.pc = "rotation", !.item = {}]

\* A rotation poll that yields although no unseen value exists.
poll_rotation_again(st, ch) ==
    IF st.kind = "params"
    THEN Yield([st EXCEPT !.seen = ch.version], Item(ch.value, ch.version))
    ELSE [st EXCEPT !.seen = ch.version, !.pc = "refresh"]

\* A rotation poll that takes the publications one at a time, as a queue
\* would hand them out.
poll_rotation_each(st, ch) ==
    IF changed(ch, st.seen) = "Err"
    THEN [st EXCEPT !.pc = "ended"]
    ELSE IF st.kind = "params"
    THEN Yield([st EXCEPT !.seen = @ + 1], Item(ch.value, st.seen + 1))
    ELSE [st EXCEPT !.seen = @ + 1, !.pc = "refresh"]

\* The rotation part, when changed() is ready.  Ok: connection_params_stream
\* yields the value borrowed (borrow_and_update), the other two go on to build
\* their item.  Err: the stream ends.
poll_rotation(st, ch) ==
    IF changed(ch, st.seen) = "Err"
    THEN [st EXCEPT !.pc = "ended"]
    ELSE IF st.kind = "params"
    THEN Yield([st EXCEPT !.seen = ch.version], Item(ch.value, ch.version))
    ELSE [st EXCEPT !.seen = ch.version, !.pc = "refresh"]

\* A refresh that gives up: the stream ends on a failure.
poll_refresh_surface(st, ch, outcome) ==
    IF st.kind = "rustls"
    THEN IF outcome.ok
         THEN [Yield([st EXCEPT !.seen = ch.version], Item(ch.value, ch.version))
                 EXCEPT !.pc = "rotation"]
         ELSE [st EXCEPT !.seen = ch.version, !.pc = "ended"]
    ELSE IF outcome.ok
         THEN [Yield(st, Item(outcome.value, st.seen)) EXCEPT !.pc = "rotation"]
         ELSE [st EXCEPT !.pc = "ended"]

\* The loops of rustls_server_configurer and metadata_stream after changed():
\* one round.  rustls borrows the parameters again each round; a failure
\* sleeps 10 s and goes round again.
poll_refresh(st, ch, outcome) ==
    IF st.kind = "rustls"
    THEN IF outcome.ok
         THEN [Yield([st EXCEPT !.seen = ch.version], Item(ch.value, ch.version))
                 EXCEPT !.pc = "rotation"]
         ELSE [st EXCEPT !.seen = ch.version]
    ELSE IF outcome.ok
         THEN [Yield(st, Item(outcome.value, st.seen)) EXCEPT !.pc = "rotation"]
         ELSE st

\* The watch channel a stream listens to.
Upstream(st) == IF st.kind = "metadata" THEN metadata_invalidated ELSE reconfigured

\* Client::metadata and generate_server_tls_params: an RPC that answers with
\* what the authority holds, or fails.
MetadataResults == {Ok(authority.data), Err("Network")}
RebuildResults == {Ok(Unit), Err("Network")}

CallerIdle == stream.kind = "none" /\ builder.state = "none"

ConnectionParamsStream ==
    /\ handles >= 1
    /\ CallerIdle
    /\ stream' = connection_params_stream(reconfigured)
    /\ UNCHANGED <<handles, cstate, worker, reconfigured, metadata_invalidated, closed,
                   builder, authority, otherVars>>

RustlsServerConfigurer ==
    /\ handles >= 1
    /\ CallerIdle
    /\ stream' = rustls_server_configurer(reconfigured)
    /\ UNCHANGED <<handles, cstate, worker, reconfigured, metadata_invalidated, closed,
                   builder, authority, otherVars>>

\* rustls_server_configurer after its await: the stream, or the error (and the
\* Client clone dropped).
RustlsBuilt ==
    \E built \in RebuildResults :
        /\ stream.kind = "rustls"
        /\ stream.pc = "creating"
        /\ stream' = IF built.ok THEN [stream EXCEPT !.pc = "initial"] ELSE NoStream
        /\ Release(handles, worker, stream')
        /\ UNCHANGED <<handles, worker, reconfigured, metadata_invalidated,
                       builder, authority, otherVars>>

\* metadata_stream: the first fetch.  A failed fetch returns the error.
MetadataStream ==
    \E fetched \in MetadataResults :
        /\ handles >= 1
        /\ CallerIdle
        /\ fetched.ok
        /\ stream' = metadata_stream(fetched.value, metadata_invalidated)
        /\ UNCHANGED <<handles, cstate, worker, reconfigured, metadata_invalidated, closed,
                       builder, authority, otherVars>>

MetadataStreamMark ==
    /\ stream.kind = "metadata"
    /\ stream.pc = "creating"
    /\ stream' = mark_unchanged(stream, metadata_invalidated)
    /\ UNCHANGED <<handles, cstate, worker, reconfigured, metadata_invalidated, closed,
                   builder, authority, otherVars>>

PollInitial ==
    /\ stream.pc = "initial"
    /\ stream' = poll_initial(stream)
    /\ UNCHANGED <<handles, cstate, worker, reconfigured, metadata_invalidated, closed,
                   builder, authority, otherVars>>

\* A poll of the rotation part that does not pend.  The StreamState of an
\* ended metadata_stream is dropped, its Client clone with it.
PollRotation ==
    /\ stream.pc = "rotation"
    /\ changed(Upstream(stream), stream.seen) # "Pending"
    /\ stream' = poll_rotation(stream, Upstream(stream))
    /\ Release(handles, worker, stream')
    /\ UNCHANGED <<handles, worker, reconfigured, metadata_invalidated,
                   builder, authority, otherVars>>

PollRefresh ==
    \E outcome \in (IF stream.kind = "rustls" THEN RebuildResults ELSE MetadataResults) :
        /\ stream.pc = "refresh"
        /\ stream' = poll_refresh(stream, Upstream(stream), outcome)
        /\ Release(handles, worker, stream')
        /\ UNCHANGED <<handles, worker, reconfigured, metadata_invalidated,
                       builder, authority, otherVars>>

\* The caller drops its stream.
DropStream ==
    /\ stream.kind # "none"
    /\ stream.pc # "creating"
    /\ stream' = NoStream
    /\ Release(handles, worker, NoStream)
    /\ UNCHANGED <<handles, worker, reconfigured, metadata_invalidated,
                   builder, authority, otherVars>>

-----------------------------------------------------------------------------
(* authly-client: access_control.rs                                         *)

\* AccessControlRequestBuilder::new.  Next to the fields of the struct
\* (peer_entity_ids left out) the record keeps the label resource_attribute
\* was last called with and, once a terminal was called, which one, the
\* response of the authority and the result handed to the caller.
AccessControlRequestBuilder(property_mapping) ==
    [state |-> "building", property_mapping |-> property_mapping, access_token |-> {},
     resource_attributes |-> {}, label |-> {}, call |-> "none", response |-> {},
     result |-> {}]

\* impl AccessControl for Client, access_control_request: the builder gets a
\* clone of the Arc the shared state holds at that moment.
access_control_request(cs) == AccessControlRequestBuilder(cs.resource_property_mapping)

\* resource_attribute resolving the label in the mapping the client holds now.
resource_attribute_current(b, attr) ==
    LET attr_id == attribute_object_id(cstate.resource_property_mapping, attr)
    IN IF attr_id = None
       THEN [b EXCEPT !.state = "failed", !.label = {attr},
                      !.result = {Err("InvalidPropertyAttributeLabel")}]
       ELSE [b EXCEPT !.label = {attr}, !.resource_attributes = @ \cup attr_id]

\* resource_attribute leaving an unknown label out without an error.
resource_attribute_skip(b, attr) ==
    LET attr_id == attribute_object_id(b.property_mapping, attr)
    IN [b EXCEPT !.label = {attr}, !.resource_attributes = @ \cup attr_id]

\* AccessControlRequestBuilder::resource_attribute: the id of the label in the
\* builder's own mapping; without one the builder is consumed and the caller
\* gets the error.
resource_attribute(b, attr) ==
    LET attr_id == attribute_object_id(b.property_mapping, attr)
    IN IF attr_id = None
       THEN [b EXCEPT !.state = "failed", !.label = {attr},
                      !.result = {Err("InvalidPropertyAttributeLabel")}]
       ELSE [b EXCEPT !.label = {attr}, !.resource_attributes = @ \cup attr_id]

\* AccessControlRequestBuilder::access_token
access_token(b, token) == [b EXCEPT !.access_token = {token}]

\* Access tokens: one that makes a header value and one that does not parse
\* as a header value.
Tokens == {"token", "token\n"}
HeaderParses(token) == token = "token"

\* tonic::Code, the two codes error.rs names and the range of all of them
\* (Ok = 0 .. Unauthenticated = 16).
PermissionDenied == 7
Unavailable == 14
Unauthenticated == 16
Codes == 0..Unauthenticated

\* tonic::Status, as the result of a failed RPC.
Status(code) == [ok |-> FALSE, code |-> code]

\* An error::tonic that knows Unauthenticated only.
tonic_unauthenticated_only(err) ==
    IF err.code = Unauthenticated THEN Err("Unauthorized") ELSE Err("Network")

\* error::tonic
tonic(err) ==
    IF err.code = Unauthenticated THEN Err("Unauthorized")
    ELSE IF err.code = PermissionDenied THEN Err("Unauthorized")
    ELSE Err("Network")

\* What the access_control RPC can answer: a value, or a status (one of each
\* arm of error::tonic).
ResponseValues == (0 - 1)..2
Responses ==
    {Ok(v) : v \in ResponseValues} \cup {Status(Unavailable), Status(Unauthenticated)}

\* impl AccessControl for Client, evaluate: the bearer header is built first,
\* then the RPC result is mapped, a status by error::tonic.
evaluate(b, response) ==
    IF \E token \in b.access_token : ~HeaderParses(token)
    THEN Err("Unclassified")
    ELSE IF ~response.ok
    THEN tonic(response)
    ELSE Ok(response.value > 0)

\* An enforce that reports every failure of evaluate as a denial.
enforce_deny_on_error(b, response) ==
    LET granted == evaluate(b, response)
    IN IF granted.ok /\ granted.value THEN Ok(Unit) ELSE Err("AccessDenied")

\* AccessControlRequestBuilder::enforce
enforce(b, response) ==
    LET granted == evaluate(b, response)
    IN IF ~granted.ok THEN granted
       ELSE IF granted.value THEN Ok(Unit) ELSE Err("AccessDenied")

AccessControlRequest ==
    /\ handles >= 1
    /\ CallerIdle
    /\ builder' = access_control_request(cstate)
    /\ UNCHANGED <<handles, cstate, worker, reconfigured, metadata_invalidated, closed,
                   stream, authority, otherVars>>

ResourceAttribute ==
    \E attr \in Labels :
        /\ builder.state = "building"
        /\ builder' = resource_attribute(builder, attr)
        /\ UNCHANGED <<handles, cstate, worker, reconfigured, metadata_invalidated, closed,
                       stream, authority, otherVars>>

AccessToken ==
    \E token \in Tokens :
        /\ builder.state = "building"
        /\ builder' = access_token(builder, token)
        /\ UNCHANGED <<handles, cstate, worker, reconfigured, metadata_invalidated, closed,
                       stream, authority, otherVars>>

\* The terminals consume the builder (its attributes go into the request, its
\* mapping is dropped) and hand back the result.
Evaluate ==
    \E response \in Responses :
        /\ builder.state = "building"
        /\ builder' = [NoBuilder EXCEPT !.state = "done", !.call = "evaluate",
                          !.access_token = builder.access_token,
                          !.response = {response}, !.result = {evaluate(builder, response)}]
        /\ UNCHANGED <<handles, cstate, worker, reconfigured, metadata_invalidated, closed,
                       stream, authority, otherVars>>

Enforce ==
    \E response \in Responses :
        /\ builder.state = "building"
        /\ builder' = [NoBuilder EXCEPT !.state = "done", !.call = "enforce",
                          !.access_token = builder.access_token,
                          !.response = {response}, !.result = {enforce(builder, response)}]
        /\ UNCHANGED <<handles, cstate, worker, reconfigured, metadata_invalidated, closed,
                       stream, authority, otherVars>>

\* The caller lets go of the builder or of the result.
DropBuilder ==
    /\ builder.state # "none"
    /\ builder' = NoBuilder
    /\ UNCHANGED <<handles, cstate, worker, reconfigured, metadata_invalidated, closed,
                   stream, authority, otherVars>>

NextClient ==
    \/ CloneClient \/ DropClient \/ AuthorityUpdate
    \/ RuntimeShutdown \/ WorkerSelect
    \/ TryReconfigure \/ InitMessageStream \/ ReloadAndPublish \/ RetryReconfigure
    \/ ConnectionParamsStream \/ RustlsServerConfigurer \/ RustlsBuilt
    \/ MetadataStream \/ MetadataStreamMark
    \/ PollInitial \/ PollRotation \/ PollRefresh \/ DropStream
    \/ AccessControlRequest \/ ResourceAttribute \/ AccessToken
    \/ Evaluate \/ Enforce \/ DropBuilder

SpecClient == InitClient /\ [][NextClient]_vars

-----------------------------------------------------------------------------
(* Properties of the client, checked under SpecClient *)

\* No caller holds a Client any more, neither directly nor inside a stream.
AllClientsDropped == handles = 0 /\ ~StreamHoldsClient(stream)

\* C11: once every Client handle is dropped the shared state is dropped (the
\* worker task does not keep it alive) and the closed signal has fired: a
\* worker that still runs has a send on closed_tx waiting for it, which makes
\* it terminate.
C11_ClosedOnLastDrop ==
    AllClientsDropped =>
        /\ ~cstate.alive
        /\ WorkerRuns => changed(closed, worker.closed_seen) = "Ok"

\* The id the authority's reply number `data` gives a label: the first reply
\* maps a/a/a to 0 and a/a/b to 1, the second maps a/a/a to 1 (named twice,
\* the later id stands) and nothing else.
ServedId(data, attr) ==
    IF attr = <<"a", "a", "a">> THEN Some(from_uint(IF data = 1 THEN 0 ELSE 1))
    ELSE IF attr = <<"a", "a", "b">> /\ data = 1 THEN Some(from_uint(1))
    ELSE None

\* The worker, waiting in select!, handles a ReloadCache message in this step.
HandlesReloadCache ==
    /\ worker.pc = "select"
    /\ authority'.sent = authority.sent + 1
    /\ authority'.delivered = "ReloadCache"

\* C12: handling a ReloadCache message whose refetch succeeds replaces the
\* shared mapping by what the authority serves and publishes exactly one
\* metadata-invalidated tick; when the refetch fails the mapping and the tick
\* channel stay as they were; in both cases the shared connection and the
\* reconfigured channel are untouched and the worker goes on selecting.
C12_ReloadCache ==
    [][HandlesReloadCache =>
        /\ cstate'.conn = cstate.conn
        /\ reconfigured' = reconfigured
        /\ worker' = worker
        /\ IF authority'.served = "Ok"
           THEN /\ \A attr \in Labels :
                      attribute_object_id(cstate'.resource_property_mapping, attr)
                        = ServedId(authority.data, attr)
                /\ metadata_invalidated'.version = metadata_invalidated.version + 1
           ELSE /\ cstate'.resource_property_mapping = cstate.resource_property_mapping
                /\ metadata_invalidated' = metadata_invalidated]_vars

\* A ReloadCache was handled with a successful refetch of a changed mapping:
\* one tick is out, the mapping is the second reply's, nothing was published
\* on the reconfigured channel.
C12_Witness ==
    /\ authority.delivered = "ReloadCache"
    /\ authority.served = "Ok"
    /\ authority.sent = 1
    /\ metadata_invalidated.version = 1
    /\ reconfigured.version = 0
    /\ attribute_object_id(cstate.resource_property_mapping, <<"a", "a", "a">>) = Some(from_uint(1))
    /\ attribute_object_id(cstate.resource_property_mapping, <<"a", "a", "b">>) = None

\* The stream made by connection_params_stream or rustls_server_configurer.
OnReconfigured(st) == st.kind \in {"params", "rustls"}

\* The stream yields an item in this step.
Yields == stream'.kind = stream.kind /\ stream'.yields = stream.yields + 1

\* C13: a stream of connection_params_stream or rustls_server_configurer is
\* made with the value the reconfigured channel holds at that moment as its
\* first item; the first poll yields that item whatever the channel's state
\* (no reconfigure is needed); every later item carries a value published
\* after the one the previously yielded item carries.
C13_FirstItemThenPublished ==
    [][/\ (stream.kind = "none" /\ OnReconfigured(stream')) =>
              stream'.item = {Item(reconfigured.value, reconfigured.version)}
       /\ (OnReconfigured(stream) /\ stream.pc = "creating" /\ stream' # stream
             /\ stream'.kind = stream.kind) =>
              stream'.item = stream.item /\ stream'.pc = "initial"
       /\ (OnReconfigured(stream) /\ stream.pc = "initial" /\ stream' # stream
             /\ stream'.kind = stream.kind) =>
              /\ stream.yields = 0
              /\ Yields
              /\ stream'.last = stream.item
       /\ (OnReconfigured(stream) /\ Yields /\ stream.yields >= 1) =>
              \A prev \in stream.last, item \in stream'.last :
                  /\ item.version > prev.version
                  /\ item = Item(reconfigured.value, reconfigured.version)]_vars

\* A connection_params_stream has yielded its first item and, after the one
\* publication that happened, a second one.
C13_Witness ==
    /\ stream.kind = "params"
    /\ stream.yields = 2
    /\ reconfigured.version = 1
    /\ stream.last = {Item(reconfigured.value, 1)}

\* C14: a poll of a connection_params_stream past its first item yields the
\* value published last, however many publications the stream has not seen,
\* and leaves none of them to be yielded later (the next poll pends or ends
\* until something new is published); the publication it carries is newer
\* than that of every item yielded before, so no value is yielded twice and
\* none older than one already yielded.
C14_LatestValue ==
    [][(stream.kind = "params" /\ Yields /\ stream.yields >= 1) =>
          /\ stream'.last = {Item(reconfigured.value, reconfigured.version)}
          /\ changed(reconfigured, stream'.seen) # "Ok"
          /\ \A prev \in stream.last : prev.version < reconfigured.version]_vars

\* Two publications happened between the first poll and the second, and the
\* second poll yielded the later one.
C14_Witness ==
    /\ stream.kind = "params"
    /\ stream.yields = 2
    /\ reconfigured.version = 2
    /\ stream.last = {Item(reconfigured.value, 2)}
    /\ stream.seen = 2

\* The streams the claim names: connection_params_stream and metadata_stream.
LazyRefresh(st) == st.kind \in {"params", "metadata"}

\* C15: a connection_params_stream or metadata_stream ends only in a step in
\* which the Sender of its watch channel is gone, and whenever the Sender is
\* gone and the stream waits in its rotation part with nothing unseen, the
\* poll does not pend: it ends the stream.
C15_EndsWithSender ==
    [][/\ (LazyRefresh(stream) /\ stream'.kind = stream.kind
             /\ stream.pc # "ended" /\ stream'.pc = "ended") =>
              /\ ~Upstream(stream).tx
              /\ stream.pc = "rotation"
       /\ (LazyRefresh(stream) /\ stream.pc = "rotation" /\ ~Upstream(stream).tx
             /\ Upstream(stream).version = stream.seen) =>
              /\ changed(Upstream(stream), stream.seen) # "Pending"
              /\ poll_rotation(stream, Upstream(stream)).pc = "ended"
              /\ poll_rotation(stream, Upstream(stream)).yields = stream.yields]_vars

\* A metadata_stream that yielded and then ended, its Sender gone.
C15_Witness ==
    /\ stream.kind = "metadata"
    /\ stream.pc = "ended"
    /\ stream.yields >= 2
    /\ ~metadata_invalidated.tx

\* C16: past its first item a metadata_stream yields only out of the refetch
\* it entered because changed() reported a tick it had not seen, one item for
\* that tick, and the item is the metadata the authority holds at the moment
\* of the yield; a refetch that fails changes nothing (the loop sleeps and
\* tries again): it yields no item and does not end the stream.
C16_MetadataPerTick ==
    [][(stream.kind = "metadata" /\ stream'.kind = "metadata") =>
          /\ (stream.pc = "rotation" /\ stream'.pc = "refresh") =>
                /\ metadata_invalidated.version # stream.seen
                /\ stream'.seen = metadata_invalidated.version
                /\ stream'.yields = stream.yields
          /\ (Yields /\ stream.yields >= 1) =>
                /\ stream.pc = "refresh"
                /\ stream'.pc = "rotation"
                /\ stream'.last = {Item(authority.data, stream.seen)}
                /\ stream'.seen = stream.seen
          /\ (stream.pc = "refresh" /\ ~Yields) => stream' = stream]_vars

\* A metadata_stream yielded its first item, saw the one tick published, and
\* yielded the metadata the authority had changed to in between.
C16_Witness ==
    /\ stream.kind = "metadata"
    /\ stream.pc = "rotation"
    /\ stream.yields = 2
    /\ metadata_invalidated.version = 1
    /\ stream.last = {Item(2, 1)}

\* The builder resolves a label in this step: resource_attribute was called
\* and handed the builder back.
ResolvesLabel ==
    /\ builder.state = "building"
    /\ builder'.state = "building"
    /\ \/ builder'.label # builder.label
       \/ builder'.resource_attributes # builder.resource_attributes

\* C17: a builder is made with the mapping the client holds at that moment;
\* while it is in use it keeps that very mapping whatever the worker stores
\* in the client meanwhile, it resolves every label against it, and so all
\* the ids it carries are ids of that one mapping.
C17_SnapshotCoherence ==
    [][/\ (builder.state = "none" /\ builder'.state = "building") =>
              /\ builder'.property_mapping = cstate.resource_property_mapping
              /\ builder'.resource_attributes = {}
       /\ (builder.state = "building" /\ builder'.state = "building") =>
              builder'.property_mapping = builder.property_mapping
       /\ ResolvesLabel =>
              \A attr \in builder'.label :
                  builder'.resource_attributes =
                      builder.resource_attributes
                          \cup attribute_object_id(builder.property_mapping, attr)
       /\ builder'.state = "building" =>
              \A id \in builder'.resource_attributes :
                  \E attr \in Labels :
                      attribute_object_id(builder'.property_mapping, attr) = Some(id)]_vars

\* A builder made under the first mapping is in use after the client's
\* mapping was replaced: it carries the first mapping's ids of a/a/a and
\* a/a/b, which the client's mapping now resolves differently.
C17_Witness ==
    /\ builder.state = "building"
    /\ builder.property_mapping # cstate.resource_property_mapping
    /\ builder.label = {<<"a", "a", "b">>}
    /\ builder.resource_attributes = {from_uint(0), from_uint(1)}
    /\ attribute_object_id(cstate.resource_property_mapping, <<"a", "a", "a">>)
         = Some(from_uint(1))
    /\ attribute_object_id(cstate.resource_property_mapping, <<"a", "a", "b">>) = None

\* C18: for the request a terminal consumed, with evaluate's result on that
\* request and response: enforce is Ok(()) exactly when evaluate is Ok(true),
\* AccessDenied exactly when evaluate is Ok(false), and evaluate's error
\* itself otherwise; evaluate, when it returns a decision, returns true
\* exactly for a response value above zero, and it returns a decision
\* whenever the request could be built and the authority answered.
C18_EnforceFollowsEvaluate ==
    builder.state = "done" =>
        \A response \in builder.response, outcome \in builder.result :
            LET granted == evaluate(builder, response)
            IN /\ builder.call = "enforce" =>
                     /\ outcome.ok <=> (granted.ok /\ granted.value)
                     /\ (~outcome.ok /\ outcome.error = "AccessDenied")
                            <=> (granted.ok /\ ~granted.value)
                     /\ ~granted.ok => outcome = granted
               /\ builder.call = "evaluate" =>
                     /\ outcome.ok => (response.ok /\ (outcome.value <=> response.value > 0))
                     /\ (response.ok /\ \A token \in builder.access_token : HeaderParses(token))
                            => outcome.ok
                     /\ ~response.ok => outcome.ok = FALSE

\* enforce was called on a request whose RPC failed: the caller got that
\* error.
C18_Witness ==
    /\ builder.state = "done"
    /\ builder.call = "enforce"
    /\ \E response \in builder.response : ~response.ok /\ response.code = Unavailable
    /\ \E outcome \in builder.result : ~outcome.ok /\ outcome.error = "Network"

\* C19: resource_attribute on a label the builder's mapping does not hold
\* consumes the builder and returns InvalidPropertyAttributeLabel, after which
\* nothing can be called on it (no request is sent); on a label the mapping
\* holds it adds the mapped id to the resource attributes and changes nothing
\* else of the request.
C19_ResourceAttribute ==
    [][/\ (builder.state = "building" /\ builder'.state = "failed") =>
              /\ \A attr \in builder'.label :
                     attribute_object_id(builder.property_mapping, attr) = None
              /\ builder'.label # {}
              /\ builder'.call = "none"
              /\ \A outcome \in builder'.result :
                     ~outcome.ok /\ outcome.error = "InvalidPropertyAttributeLabel"
              /\ builder'.result # {}
       /\ builder.state = "failed" =>
              /\ builder'.state \in {"failed", "none"}
              /\ builder'.call = "none"
       /\ ResolvesLabel =>
              \A attr \in builder'.label :
                  /\ attribute_object_id(builder.property_mapping, attr) # None
                  /\ builder'.resource_attributes =
                         builder.resource_attributes
                             \cup attribute_object_id(builder.property_mapping, attr)
                  /\ builder'.access_token = builder.access_token
                  /\ builder'.property_mapping = builder.property_mapping
                  /\ builder'.result = {}]_vars

\* A builder that had resolved a/a/a was then given a label its mapping does
\* not hold and failed.
C19_Witness ==
    /\ builder.state = "failed"
    /\ builder.label = {<<"b", "a", "a">>}
    /\ attribute_object_id(builder.property_mapping, <<"b", "a", "a">>) = None
    /\ builder.resource_attributes = {from_uint(0)}
    /\ \E outcome \in builder.result : ~outcome.ok /\ outcome.error = "InvalidPropertyAttributeLabel"

\* C26: once the client is gone (every Client dropped, which is what is to
\* fire the closed signal) the worker does not go on retrying: a back-off
\* sleep that ends with the client gone is followed by the worker's exit, not
\* by another reconfigure attempt.
C26_ExitsWhenClosed ==
    [][(AllClientsDropped /\ worker.pc = "sleep" /\ worker' # worker)
           => worker'.pc = "done"]_vars

\* The worker publishes connection parameters in this step.
Publishes == reconfigured'.version = reconfigured.version + 1

\* C27: a reconfigure goes through its steps in order: new parameters and the
\* connection made from them are stored as the shared connection; then the
\* message stream is reopened on that connection; then the cache is reloaded
\* and the parameters are published.  So when parameters are published the
\* shared connection already is the one made from them, and whenever the
\* worker is back in select! the shared connection is the one of the
\* parameters the channel holds; at any other moment it is that one or one
\* the worker made later.
C27_SwapBeforePublish ==
    [][/\ Publishes =>
              /\ worker.pc = "reload"
              /\ worker.params = {reconfigured'.value}
              /\ cstate.conn = Connection(reconfigured'.value)
              /\ cstate'.conn = cstate.conn
              /\ worker.msg_stream = Streaming(cstate.conn)
              /\ worker'.pc = "select"
       /\ (worker.pc # "reload" /\ worker'.pc = "reload") =>
              /\ worker.pc = "init_message_stream"
              /\ worker'.msg_stream = Streaming(cstate.conn)
              /\ cstate' = cstate
              /\ cstate.conn = Connection(CHOOSE cp \in worker.params : TRUE)
              /\ worker'.params = worker.params
       /\ (worker.pc # "init_message_stream" /\ worker'.pc = "init_message_stream") =>
              /\ worker.pc = "reconfigure"
              /\ \E cp \in ParamsIds :
                     /\ Ok(cp) \in new_connection_params(cstate.reconfigure)
                     /\ worker'.params = {cp}
                     /\ cstate'.conn = Connection(cp)
       /\ cstate'.conn # cstate.conn => worker.pc = "reconfigure"
       /\ worker'.pc = "select" => cstate'.conn = Connection(reconfigured'.value)]_vars

\* A ReloadCa was handled to the end: parameters other than the first ones
\* are published, and the shared connection and the message stream are those
\* of these parameters.
C27_Witness ==
    /\ authority.delivered = "ReloadCa"
    /\ worker.pc = "select"
    /\ reconfigured.version = 1
    /\ reconfigured.value = 1
    /\ cstate.conn = Connection(1)
    /\ worker.msg_stream = Streaming(Connection(1))

\* C28: no failure ends the worker.  A reconfigure attempt that fails puts
\* it to sleep and the sleep is followed by the next attempt, however often;
\* a ReloadCache whose refetch fails, a Ping, a message without a kind leave
\* it selecting; the end or failure of the message stream sends it to
\* reconfigure.  It stops running only through the closed branch of select!
\* (or when the runtime drops the task).
C28_NoExitOnError ==
    [][/\ (WorkerRuns /\ ~WorkerRuns') =>
              \/ worker.pc = "select" /\ "Closed" \in SelectReady
              \/ RuntimeShutdown
       /\ (WorkerRuns' /\ worker.pc \in {"reconfigure", "init_message_stream"}
             /\ worker' # worker) =>
              worker'.pc \in {"init_message_stream", "reload", "sleep"}
       /\ (WorkerRuns' /\ worker.pc = "sleep" /\ worker' # worker) =>
              worker'.pc = "reconfigure"
       /\ (WorkerRuns' /\ authority'.sent = authority.sent + 1) =>
              worker'.pc =
                  IF authority'.delivered \in {"ReloadCa", "End", "Error"}
                  THEN "reconfigure" ELSE "select"]_vars

\* A reconfigure attempt failed after the new connection was stored: the
\* worker sleeps before the next attempt.
C28_Witness ==
    /\ worker.pc = "sleep"
    /\ cstate.conn # Connection(reconfigured.value)
    /\ ~worker.msg_stream.live

\* The worker is handed the end or a failure of its message stream in this step.
HandlesStreamEnd ==
    /\ worker.pc = "select"
    /\ authority'.sent = authority.sent + 1
    /\ authority'.delivered \in {"End", "Error"}

\* C29: when the message stream ends or fails the worker starts a
\* reconfigure and is done with that stream: it selects again only after a
\* reconfigure succeeded, which gave it new parameters, a connection of
\* them and a stream opened on that connection; while it selects its stream
\* is a live one.
C29_StreamEndReconfigures ==
    [][/\ HandlesStreamEnd =>
              /\ worker'.pc = "reconfigure"
              /\ ~worker'.msg_stream.live
       /\ (WorkerRuns' /\ ~worker.msg_stream.live /\ worker'.msg_stream.live) =>
              /\ worker.pc = "init_message_stream"
              /\ worker'.msg_stream = Streaming(cstate.conn)
              /\ cstate.conn = Connection(CHOOSE cp \in worker.params : TRUE)
       /\ (worker.pc # "select" /\ worker'.pc = "select") =>
              /\ worker.pc = "reload"
              /\ worker'.msg_stream = worker.msg_stream
       /\ worker'.pc = "select" => worker'.msg_stream.live]_vars

\* The stream ended, the reconfigure that followed succeeded at once or
\* after retries, and the worker selects on the new stream.
C29_Witness ==
    /\ authority.delivered = "End"
    /\ worker.pc = "select"
    /\ worker.msg_stream.live
    /\ reconfigured.version = 1

\* eval_policy is about to run IsEq with two operands on the stack.
AtIsEq ==
    /\ mach.out = "running"
    /\ mach.pc # <<>>
    /\ Head(mach.pc) = IsEq
    /\ Len(mach.stack) >= 2

\* The operand pairs IsEq is said to accept (top of stack first).
IsEqPairs ==
    {<<"EntityId", "EntityId">>, <<"AttrId", "AttrId">>,
     <<"AttrIdSet", "AttrId">>, <<"AttrId", "AttrIdSet">>}

\* C30: IsEq run on two operands pushes a boolean when the pair is
\* (EntityId,EntityId), (AttrId,AttrId), (AttrSet,AttrId) or (AttrId,AttrSet),
\* and ends the evaluation with the Type error for every other pair.
C30_IsEqOperands ==
    [][AtIsEq =>
           IF <<Top(mach.stack).tag, Top(Pop(mach.stack)).tag>> \in IsEqPairs
           THEN /\ mach'.out = "running"
                /\ Len(mach'.stack) = Len(mach.stack) - 1
                /\ Top(mach'.stack).tag = "Uint"
           ELSE mach'.out = "Type"]_vars

\* eval_policy is about to run the operator code with at least n operands on
\* the stack.
AtOperator(code, n) ==
    /\ mach.out = "running"
    /\ mach.pc # <<>>
    /\ Head(mach.pc) = code
    /\ Len(mach.stack) >= n

\* The operand pushed last and the one pushed before it.
PushedLast == Top(mach.stack)
PushedBefore == Top(Pop(mach.stack))

\* C31: IdSetContains run on an attribute set with an AttrId pushed after it
\* (the id on top) pushes 1 when the id is in the set and 0 when it is not,
\* and does not end in the Type error.
C31_IdSetContainsOrder ==
    [][(/\ AtOperator(IdSetContains, 2)
        /\ PushedBefore.tag = "AttrIdSet"
        /\ PushedLast.tag = "AttrId")
           => /\ mach'.out = "running"
              /\ Top(mach'.stack) = Bool01(PushedLast.val \in PushedBefore.val)]_vars

\* C32: SupersetOf run on a (pushed first) and b (pushed second) pushes 1
\* when both are attribute sets and a is a superset of b, 0 when both are
\* attribute sets and it is not, and ends in the Type error when one of
\* them is no attribute set.
C32_SupersetOf ==
    [][AtOperator(SupersetOf, 2) =>
           IF PushedBefore.tag = "AttrIdSet" /\ PushedLast.tag = "AttrIdSet"
           THEN /\ mach'.out = "running"
                /\ Top(mach'.stack) = Bool01(PushedLast.val \subseteq PushedBefore.val)
           ELSE mach'.out = "Type"]_vars

\* The operands on the stack do not have the shape the operator code takes.
WrongShape(code) ==
    \/ /\ code \in {And, Or}
       /\ PushedLast.tag # "Uint" \/ PushedBefore.tag # "Uint"
    \/ /\ code \in {Not, Return}
       /\ PushedLast.tag # "Uint"
    \/ /\ code = SupersetOf
       /\ PushedLast.tag # "AttrIdSet" \/ PushedBefore.tag # "AttrIdSet"
    \/ /\ code = IdSetContains
       /\ ~(PushedBefore.tag = "AttrIdSet" /\ PushedLast.tag = "AttrId")

\* How many operands the operator code pops.
Arity(code) == IF code \in {Not, Return} THEN 1 ELSE 2

\* The ids map LoadSubjectId / LoadResourceId looks its PropId up in.
IdsMap(code) ==
    IF code = LoadSubjectId THEN CodeParams.subject_eids ELSE CodeParams.resource_eids

\* C33: an operator that finds fewer operands on the stack than it pops, an
\* And / Or / Not / Return / SupersetOf / IdSetContains that finds an operand
\* of the wrong shape, and a LoadSubjectId / LoadResourceId whose PropId is
\* not in the ids map, each end the evaluation with the Type error.
C33_TypeErrors ==
    [][(mach.out = "running" /\ mach.pc # <<>>) =>
           LET code == Head(mach.pc)
           IN /\ (code \in IsEq..Return /\ Len(mach.stack) < Arity(code))
                     => mach'.out = "Type"
              /\ (/\ code \in {SupersetOf, IdSetContains, And, Or, Not, Return}
                  /\ Len(mach.stack) >= Arity(code)
                  /\ WrongShape(code))
                     => mach'.out = "Type"
              /\ (/\ code \in {LoadSubjectId, LoadResourceId}
                  /\ Len(mach.pc) >= 17
                  /\ SubSeq(mach.pc, 2, 17) \notin DOMAIN IdsMap(code))
                     => mach'.out = "Type"]_vars

\* The engine with every reference to a policy it does not hold removed
\* from the target sets of its triggers.
WithoutDangling(eng) ==
    [eng EXCEPT !.trigger_groups =
        [attr \in DOMAIN eng.trigger_groups |->
            [i \in DOMAIN eng.trigger_groups[attr] |->
                PolicyTrigger(eng.trigger_groups[attr][i].attr_matcher,
                              eng.trigger_groups[attr][i].policy_ids
                                  \cap DOMAIN eng.policies)]]]

\* Some trigger of the engine names a policy the engine does not hold.
HasDangling(eng) == WithoutDangling(eng) # eng

\* C34: a call of eval on an engine with triggers that name absent policies
\* returns what the engine without these references returns, whatever the
\* iteration order: the two buckets are the same, hold only policies of the
\* engine, and no error comes from the reference.
C34_DanglingSkipped ==
    Called =>
        /\ collect(CurEngine, params) = collect(WithoutDangling(CurEngine), params)
        /\ collect(CurEngine, params).applicable_allow \subseteq DOMAIN policies
        /\ collect(CurEngine, params).applicable_deny \subseteq DOMAIN policies
        /\ \A order \in Orders :
               eval(CurEngine, params, RecordingTracer, order).value
                   = eval(WithoutDangling(CurEngine), params, RecordingTracer, order).value
        /\ \E order \in Orders :
               result = eval(WithoutDangling(CurEngine), params, RecordingTracer, order).value
        /\ (\A id \in DOMAIN policies : ~IsError(Truth(id))) => ~IsError(result)

\* eval was called on an engine whose applying trigger names one policy the
\* engine holds and one it does not; the policy held was evaluated and
\* allowed the request.
C34_Witness ==
    /\ Called
    /\ HasDangling(CurEngine)
    /\ Len(evaluated) = 1
    /\ result = "Allow"

\* C35: eval_policy run on any bytes returns: the run ends with a boolean
\* or with one of the two errors of EvalError, and never unwinds.
C35_NeverPanics ==
    Finished => mach.out \in {"true", "false", "Program", "Type"}

\* C36: what a call of eval returned is what it returns under every
\* iteration order of the buckets.
C36_OrderIndependent ==
    Called =>
        \A order \in Orders :
            eval(CurEngine, params, RecordingTracer, order).value = result

\* A reconfigure attempt fails in this step: the worker goes to its back-off
\* sleep.
AttemptFails ==
    /\ worker.pc \in {"reconfigure", "init_message_stream"}
    /\ worker'.pc = "sleep"

\* C37: when a reconfigure attempt fails, the shared connection, the
\* worker's message stream and the published parameters are what they were
\* when the attempt began.  The worker's stream was opened on the connection
\* that was shared then (at connect, or by the last attempt that succeeded),
\* so the shared connection after the failure is the one of that stream.
C37_FailedAttemptChangesNothing ==
    [][AttemptFails =>
           /\ cstate'.conn = worker.msg_stream.conn
           /\ worker'.msg_stream = worker.msg_stream
           /\ reconfigured' = reconfigured]_vars

\* C38: a metadata_stream that waits for the next tick has not lost one:
\* the snapshot it holds ready or yielded last was fetched after every tick
\* its receiver counts as seen, so each tick published since the first fetch
\* began is followed by a snapshot fetched after it.
C38_NoLostInvalidation ==
    (stream.kind = "metadata" /\ stream.pc \in {"initial", "rotation"}) =>
        \A item \in stream.item \cup stream.last : item.version >= stream.seen

\* The engine after one more Deny-class policy was added under an id it did
\* not hold, with a trigger that targets this policy alone.
WithDenyPolicy(eng, id, bytecode, attr_matcher) ==
    add_trigger(add_policy(eng, id, "Deny", bytecode), attr_matcher, {id})

\* Some policy of the engine applies to the request of the recorded call.
SomeApplicable ==
    collect(CurEngine, params) # EvalCtx({}, {})

\* C39 as stated: when eval returned Deny, the engine with one more
\* Deny-class policy and its trigger does not return Allow for the same
\* request.
C39_DenyMonotone_AsStated ==
    (Called /\ result = "Deny") =>
        \A id \in PolicyIds \ DOMAIN policies, bytecode \in Programs,
           attr_matcher \in SUBSET AttrIds, order \in Orders :
            eval(WithDenyPolicy(CurEngine, id, bytecode, attr_matcher),
                 params, RecordingTracer, order).value # "Allow"

\* C39: when eval returned Deny and some policy applied to the request, the
\* engine with one more Deny-class policy and its trigger does not return
\* Allow for the same request.  When Deny was the fallback for a request no
\* policy applies to, the larger engine returns Allow exactly when the new
\* policy applies to the request and evaluates to false.
C39_DenyMonotone ==
    (Called /\ result = "Deny") =>
        \A id \in PolicyIds \ DOMAIN policies, bytecode \in Programs,
           attr_matcher \in SUBSET AttrIds, order \in Orders :
            LET larger == WithDenyPolicy(CurEngine, id, bytecode, attr_matcher)
                value == eval(larger, params, RecordingTracer, order).value
            IN IF SomeApplicable
               THEN value # "Allow"
               ELSE value = "Allow" <=>
                        /\ collect(larger, params).applicable_deny = {id}
                        /\ eval_policy(bytecode, params) = "false"

\* eval returned Deny because a Deny-class policy that applies evaluated to
\* true, and the engine has room for one more policy.
C39_Witness ==
    /\ Called
    /\ result = "Deny"
    /\ collect(CurEngine, params).applicable_deny # {}
    /\ collect(CurEngine, params).applicable_allow = {}
    /\ PolicyIds \ DOMAIN policies # {}

-----------------------------------------------------------------------------
(* authly-common: id.rs, identifiers as text and as tagged bytes            *)
(* (and, among the calls of this part, the client's error::tonic)           *)
(*                                                                          *)
(* A text is a sequence of one-character strings.  An Id128<K> is its 16    *)
(* bytes, K being a type parameter of the call; a DynamicId<KS> is a record *)
(* of kind and id bytes, KS being a type parameter of the call.             *)

Kinds == KindPersona..KindDirectory

\* Kind::entries
entries ==
    <<KindPersona, KindGroup, KindService, KindDomain, KindPolicy, KindProperty,
      KindAttribute, KindDirectory>>

\* Kind::str_prefix
str_prefix(kind) ==
    CASE kind = KindPersona -> <<"p">>
      [] kind = KindGroup -> <<"g">>
      [] kind = KindService -> <<"s">>
      [] kind = KindDomain -> <<"d">>
      [] kind = KindProperty -> <<"p", "r", "p">>
      [] kind = KindAttribute -> <<"a", "t", "r">>
      [] kind = KindDirectory -> <<"d", "i", "r">>
      [] kind = KindPolicy -> <<"p", "o", "l">>

\* An Entity subset that lets every kind in.
contains_all(subset, kind) == TRUE

\* IdKindSubset::contains for the subsets Entity and Any
contains(subset, kind) ==
    IF subset = "Entity" THEN EntityContains(kind) ELSE TRUE

Subsets == {"Entity", "Any"}

DynamicId(kind, id) == [kind |-> kind, id |-> id]

\* Option::unwrap / Result's payload: the value inside Some.
unwrap(option) == CHOOSE value \in option : TRUE

HexDigits ==
    <<"0", "1", "2", "3", "4", "5", "6", "7", "8", "9", "a", "b", "c", "d", "e", "f">>
UpperHexDigits ==
    <<"0", "1", "2", "3", "4", "5", "6", "7", "8", "9", "A", "B", "C", "D", "E", "F">>

\* hexhex::hex as Display writes it: two lower-case digits per byte.
hex(bytes) ==
    [i \in 1..(2 * Len(bytes)) |->
        LET byte == bytes[(i + 1) \div 2]
        IN IF i % 2 = 1 THEN HexDigits[(byte \div 16) + 1] ELSE HexDigits[(byte % 16) + 1]]

\* The value of one hex digit, of either case.
nibble(char) ==
    {n - 1 : n \in {m \in 1..16 : HexDigits[m] = char \/ UpperHexDigits[m] = char}}

\* hexhex::decode (the crate is not part of the repository; as hex decoders
\* do, it takes digits of both cases and wants an even number of them).
decode(text) ==
    IF Len(text) % 2 # 0 \/ \E i \in 1..Len(text) : nibble(text[i]) = None
    THEN None
    ELSE Some([i \in 1..(Len(text) \div 2) |->
                  16 * unwrap(nibble(text[2 * i - 1])) + unwrap(nibble(text[2 * i]))])

\* str::strip_prefix
strip_prefix(text, prefix) ==
    IF Len(text) >= Len(prefix) /\ SubSeq(text, 1, Len(prefix)) = prefix
    THEN Some(SubSeq(text, Len(prefix) + 1, Len(text)))
    ELSE None

\* The reserved range ending one lower.
min_one_lower == to_be_bytes(32767)

\* let min = 32768_u128.to_be_bytes()
min == to_be_bytes(32768)

Zero == [i \in 1..16 |-> 0]

\* The tail of both from_str: hex-decode, 16 bytes, not in the reserved range.
parse_hex(kind, text) ==
    LET decoded == decode(text)
    IN IF decoded = None THEN Err("invalid format")
       ELSE IF Len(unwrap(decoded)) # 16 THEN Err("invalid length")
       ELSE IF unwrap(decoded) # Zero /\ IdLess(unwrap(decoded), min)
       THEN Err("invalid value, too small")
       ELSE Ok(DynamicId(kind, unwrap(decoded)))

\* impl FromStr for Id128<K>.  The result carries K next to the bytes.
Id128_from_str(K, text) ==
    LET stripped == strip_prefix(text, str_prefix(K))
    IN IF stripped = None THEN Err("unrecognized prefix")
       ELSE LET dotted == strip_prefix(unwrap(stripped), <<".">>)
            IN IF dotted = None THEN Err("missing .")
               ELSE parse_hex(K, unwrap(dotted))

\* impl FromStr for DynamicId<S>: splitn(2, ".") cuts at the first dot, if any.
DynamicId_from_str(S, text) ==
    LET dots == {i \in 1..Len(text) : text[i] = "."}
    IN IF dots = {} THEN Err("no hex code")
       ELSE LET dot == CHOOSE i \in dots : \A j \in dots : i <= j
                prefix == SubSeq(text, 1, dot - 1)
                found == {i \in 1..Len(entries) : str_prefix(entries[i]) = prefix}
            IN IF found = {} THEN Err("unrecognized prefix")
               ELSE LET kind == entries[CHOOSE i \in found : \A j \in found : i <= j]
                    IN IF ~contains(S, kind) THEN Err("invalid subset")
                       ELSE parse_hex(kind, SubSeq(text, dot + 1, Len(text)))

\* impl Display / Serialize, for Id128<K> (kind is K) and for DynamicId.
to_string(id) == str_prefix(id.kind) \o <<".">> \o hex(id.id)

\* Id128::from_raw_bytes
from_raw_bytes(bytes) == IF Len(bytes) = 16 THEN Some(bytes) ELSE None

\* to_array_dynamic writing the kind after the id bytes.
to_array_dynamic_kind_last(id) == id.id \o <<id.kind>>

\* Id128DynamicArrayConv::to_array_dynamic, for Id128<K> (kind is K) and for
\* DynamicId.
to_array_dynamic(id) == <<id.kind>> \o id.id

\* impl Id128DynamicArrayConv for Id128<K>: try_from_array_dynamic
Id128_try_from_array_dynamic(K, array) ==
    IF array[1] = K
    THEN {DynamicId(K, bytes) : bytes \in from_raw_bytes(SubSeq(array, 2, Len(array)))}
    ELSE None

\* impl Id128DynamicArrayConv for DynamicId<KS>: try_from_array_dynamic
DynamicId_try_from_array_dynamic(KS, array) ==
    IF ~KindValid(array[1]) THEN None
    ELSE IF ~contains(KS, array[1]) THEN None
    ELSE Some(DynamicId(array[1], SubSeq(array, 2, Len(array))))

\* Id128DynamicArrayConv::try_from_bytes_dynamic: the slice has to be 17 long.
Id128_try_from_bytes_dynamic(K, bytes) ==
    IF Len(bytes) # 17 THEN None ELSE Id128_try_from_array_dynamic(K, bytes)
DynamicId_try_from_bytes_dynamic(KS, bytes) ==
    IF Len(bytes) # 17 THEN None ELSE DynamicId_try_from_array_dynamic(KS, bytes)

\* impl TryFrom<Id128<K>> for DynamicId<KS>
DynamicId_try_from(KS, id) ==
    IF contains(KS, id.kind) THEN Ok(id) ELSE Err(Unit)

\* impl TryFrom<DynamicId<KS>> for Id128<K>
Id128_try_from(K, value) ==
    IF value.kind # K THEN Err(Unit) ELSE Ok(DynamicId(K, value.id))

u16_MAX == 65535

\* The numbers the model makes identifiers of: zero, the ends of the
\* reserved range, what random() turns down, and one that fills the first
\* byte too.
Values == {0, 1, 32767, 32768, u16_MAX, u16_MAX + 1}
RawIds == {to_be_bytes(n) : n \in Values}
             \cup {[i \in 1..16 |-> IF i = 1 THEN 18 ELSE IF i = 16 THEN 171 ELSE 0]}

\* Id128::random: the loop returns the first draw above u16::MAX.
random == {id \in RawIds : IdLess(to_be_bytes(u16_MAX), id)}

\* A text with its hex digits in upper case.
upper(text) ==
    [i \in 1..Len(text) |->
        IF \E n \in 1..16 : HexDigits[n] = text[i]
        THEN UpperHexDigits[CHOOSE n \in 1..16 : HexDigits[n] = text[i]]
        ELSE text[i]]

\* The texts handed to from_str: a prefix (of a kind, or none of them), a
\* dot or none, and a tail: 32 digits of either case, too few or too many
\* digits, or something that is no digit.
Prefixes == {str_prefix(kind) : kind \in Kinds} \cup {<<"x">>, <<>>, <<"P">>}
Tails ==
    {hex(id) : id \in RawIds} \cup {upper(hex(id)) : id \in RawIds}
        \cup {SubSeq(hex(Zero), 1, 31), SubSeq(hex(Zero), 1, 30), hex(Zero) \o <<"0", "0">>,
              [hex(Zero) EXCEPT ![5] = "g"], [hex(Zero) EXCEPT ![5] = "."]}
Texts == {prefix \o sep \o tail : prefix \in Prefixes, sep \in {<<".">>, <<>>}, tail \in Tails}

\* The byte slices handed to try_from_bytes_dynamic: a tag byte (of a kind,
\* or the first byte past them) before an id, and slices of other lengths.
Slices ==
    {<<tag>> \o id : tag \in 0..(KindDirectory + 1), id \in RawIds}
        \cup {Zero, <<KindPersona, 0>> \o Zero}

Id128s == {DynamicId(K, id) : K \in Kinds, id \in RawIds}
DynamicIds(KS) == {id \in Id128s : contains(KS, id.kind)}

InitId ==
    /\ policies = EmptyMap
    /\ trigger_groups = EmptyMap
    /\ params = DefaultParams
    /\ result = "none"
    /\ evaluated = <<>>
    /\ tracer = NoOpPolicyTracer
    /\ ops = <<>>
    /\ program = <<>>
    /\ mach = IdleMachine
    /\ NoMapping
    /\ NoClient
    /\ NoId

idOtherVars == <<engineVars, codeVars, mappingVars, clientVars>>

\* Id128::<K>::from_str(text), and the parsed id displayed again.
FromStr ==
    \E K \in Kinds, text \in Texts :
        LET parsed == Id128_from_str(K, text)
        IN /\ NoId
           /\ id_call' = [op |-> "Id128::from_str", kind |-> K, text |-> text,
                          out |-> parsed,
                          shown |-> IF parsed.ok THEN to_string(parsed.value) ELSE <<>>]
           /\ UNCHANGED idOtherVars

\* DynamicId::<S>::from_str(text), and the parsed id displayed again.
DynamicFromStr ==
    \E S \in Subsets, text \in Texts :
        LET parsed == DynamicId_from_str(S, text)
        IN /\ NoId
           /\ id_call' = [op |-> "DynamicId::from_str", subset |-> S, text |-> text,
                          out |-> parsed,
                          shown |-> IF parsed.ok THEN to_string(parsed.value) ELSE <<>>]
           /\ UNCHANGED idOtherVars

\* id.to_string() on an Id128<K>, and the text parsed again as an Id128<K>.
Display ==
    \E id \in Id128s :
        /\ NoId
        /\ id_call' = [op |-> "Id128::to_string", id |-> id, out |-> to_string(id),
                       back |-> Id128_from_str(id.kind, to_string(id))]
        /\ UNCHANGED idOtherVars

\* id.to_string() on a DynamicId<S>, and the text parsed again as one.
DynamicDisplay ==
    \E S \in Subsets :
        \E id \in DynamicIds(S) :
            /\ NoId
            /\ id_call' = [op |-> "DynamicId::to_string", subset |-> S, id |-> id,
                           out |-> to_string(id),
                           back |-> DynamicId_from_str(S, to_string(id))]
            /\ UNCHANGED idOtherVars

\* id.to_array_dynamic() on an Id128<K>, and the array converted back.
ToArrayDynamic ==
    \E id \in Id128s :
        /\ NoId
        /\ id_call' = [op |-> "Id128::to_array_dynamic", id |-> id,
                       out |-> to_array_dynamic(id),
                       back |-> Id128_try_from_bytes_dynamic(id.kind, to_array_dynamic(id))]
        /\ UNCHANGED idOtherVars

\* id.to_array_dynamic() on a DynamicId<KS>, and the array converted back.
DynamicToArrayDynamic ==
    \E KS \in Subsets :
        \E id \in DynamicIds(KS) :
            /\ NoId
            /\ id_call' = [op |-> "DynamicId::to_array_dynamic", subset |-> KS, id |-> id,
                           out |-> to_array_dynamic(id),
                           back |-> DynamicId_try_from_bytes_dynamic(KS, to_array_dynamic(id))]
            /\ UNCHANGED idOtherVars

\* Id128::<K>::try_from_bytes_dynamic(bytes)
TryFromBytesDynamic ==
    \E K \in Kinds, bytes \in Slices :
        /\ NoId
        /\ id_call' = [op |-> "Id128::try_from_bytes_dynamic", kind |-> K, bytes |-> bytes,
                       out |-> Id128_try_from_bytes_dynamic(K, bytes)]
        /\ UNCHANGED idOtherVars

\* DynamicId::<KS>::try_from_bytes_dynamic(bytes)
DynamicTryFromBytesDynamic ==
    \E KS \in Subsets, bytes \in Slices :
        /\ NoId
        /\ id_call' = [op |-> "DynamicId::try_from_bytes_dynamic", subset |-> KS,
                       bytes |-> bytes,
                       out |-> DynamicId_try_from_bytes_dynamic(KS, bytes)]
        /\ UNCHANGED idOtherVars

\* DynamicId::<KS>::try_from(id) for an Id128<K>
DynamicTryFrom ==
    \E KS \in Subsets, id \in Id128s :
        /\ NoId
        /\ id_call' = [op |-> "DynamicId::try_from", subset |-> KS, id |-> id,
                       out |-> DynamicId_try_from(KS, id)]
        /\ UNCHANGED idOtherVars

\* Id128::<K>::try_from(value) for a DynamicId<KS>
TryFrom ==
    \E K \in Kinds, KS \in Subsets :
        \E value \in DynamicIds(KS) :
            /\ NoId
            /\ id_call' = [op |-> "Id128::try_from", kind |-> K, subset |-> KS, id |-> value,
                           out |-> Id128_try_from(K, value)]
            /\ UNCHANGED idOtherVars

\* Id128::<K>::random()
Random ==
    \E K \in Kinds, id \in random :
        /\ NoId
        /\ id_call' = [op |-> "Id128::random", kind |-> K, out |-> DynamicId(K, id)]
        /\ UNCHANGED idOtherVars

\* error::tonic(err) for a status of any code
Tonic ==
    \E code \in Codes :
        /\ NoId
        /\ id_call' = [op |-> "error::tonic", err |-> Status(code),
                       out |-> tonic(Status(code))]
        /\ UNCHANGED idOtherVars

\* make_connection called on its own, as ClientBuilder::connect calls it.
MakeConnection ==
    \E connection_params \in ParamsIds, fault \in Faults :
        /\ NoId
        /\ id_call' = [op |-> "make_connection", fault |-> fault,
                       out |-> make_connection_outcome(connection_params, fault)]
        /\ UNCHANGED idOtherVars

\* The caller is done with the result.
IdReturn ==
    /\ id_call.op # "none"
    /\ id_call' = NoCall
    /\ UNCHANGED idOtherVars

NextId ==
    \/ FromStr \/ DynamicFromStr \/ Display \/ DynamicDisplay
    \/ ToArrayDynamic \/ DynamicToArrayDynamic
    \/ TryFromBytesDynamic \/ DynamicTryFromBytesDynamic
    \/ DynamicTryFrom \/ TryFrom \/ Random \/ Tonic \/ MakeConnection \/ IdReturn

SpecId == InitId /\ [][NextId]_vars

-----------------------------------------------------------------------------
(* Properties of the conversions, checked under SpecId *)

\* C21: for every Id128<K> and every DynamicId x, x.to_array_dynamic() is 17
\* bytes long, its first byte is the discriminant of x's kind (one of 0..7,
\* Persona 0, Directory 7), the 16 bytes after it are x's id bytes, and
\* converting the array back gives x.
C21_ArrayRoundTrip ==
    id_call.op \in {"Id128::to_array_dynamic", "DynamicId::to_array_dynamic"} =>
        /\ Len(id_call.out) = 17
        /\ id_call.out[1] = id_call.id.kind
        /\ id_call.out[1] \in 0..7
        /\ (id_call.id.kind = KindPersona) <=> (id_call.out[1] = 0)
        /\ (id_call.id.kind = KindDirectory) <=> (id_call.out[1] = 7)
        /\ \A i \in 1..16 : id_call.out[i + 1] = id_call.id.id[i]
        /\ id_call.back = Some(id_call.id)

\* An EntityId of kind Service with a value that fills the first byte went
\* to bytes and back.
C21_Witness ==
    /\ id_call.op = "DynamicId::to_array_dynamic"
    /\ id_call.subset = "Entity"
    /\ id_call.id.kind = KindService
    /\ id_call.id.id[1] = 18
    /\ id_call.out[1] = 2
    /\ id_call.back = {id_call.id}

\* The id bytes are a number of the reserved range 1..=32767.
Reserved(bytes) ==
    /\ \A i \in 1..13 : bytes[i] = 0
    /\ to_uint(bytes) \in 1..32767

\* C22: every text from_str accepts (typed or dynamic) is what the parsed id
\* displays as; and every id outside the reserved range, displayed and
\* parsed again, is the same id.
C22_TextRoundTrip ==
    /\ (id_call.op \in {"Id128::from_str", "DynamicId::from_str"} /\ id_call.out.ok) =>
           id_call.shown = id_call.text
    /\ (id_call.op \in {"Id128::to_string", "DynamicId::to_string"}
          /\ ~Reserved(id_call.id.id)) =>
           id_call.back = Ok(id_call.id)

\* The text before the first dot (all of it when there is none) and after it.
PrefixOf(text) ==
    LET dots == {i \in 1..Len(text) : text[i] = "."}
    IN IF dots = {} THEN text
       ELSE SubSeq(text, 1, (CHOOSE i \in dots : \A j \in dots : i <= j) - 1)
TailOf(text) == SubSeq(text, Len(PrefixOf(text)) + 2, Len(text))

EntityKinds == {KindPersona, KindGroup, KindService}

\* The kinds a call's type parameter lets in: K itself, or the kinds of KS.
KindsOf(call) ==
    IF call.op \in {"Id128::from_str", "Id128::try_from_bytes_dynamic", "Id128::try_from"}
    THEN {call.kind}
    ELSE IF call.subset = "Entity" THEN EntityKinds ELSE Kinds

\* C23: a conversion into Id128<K> or into a DynamicId of a subset succeeds
\* only for a kind its type lets in: from_str only when the text before the
\* dot is the prefix of such a kind, try_from_bytes_dynamic only when the
\* first byte is the discriminant of such a kind, the result being of that
\* kind; for EntityId these are Persona, Group and Service (p, g, s) and no
\* other kind, and texts of these three with a good tail are accepted;
\* Id128<K>::try_from(DynamicId) fails whenever the kinds differ, and
\* DynamicId<KS>::try_from(Id128<K>) whenever K is no kind of KS.
C23_KindMembership ==
    /\ (id_call.op \in {"Id128::from_str", "DynamicId::from_str"} /\ id_call.out.ok) =>
           /\ id_call.out.value.kind \in KindsOf(id_call)
           /\ PrefixOf(id_call.text) = str_prefix(id_call.out.value.kind)
    /\ (id_call.op = "DynamicId::from_str" /\ id_call.subset = "Entity") =>
           /\ id_call.out.ok =>
                  PrefixOf(id_call.text) \in {<<"p">>, <<"g">>, <<"s">>}
           /\ (/\ PrefixOf(id_call.text) \in {<<"p">>, <<"g">>, <<"s">>}
               /\ \E id \in RawIds : ~Reserved(id) /\ TailOf(id_call.text) = hex(id)
               /\ Len(id_call.text) = Len(PrefixOf(id_call.text)) + 33) =>
                  id_call.out.ok
    /\ (id_call.op \in {"Id128::try_from_bytes_dynamic", "DynamicId::try_from_bytes_dynamic"}
          /\ id_call.out # None) =>
           /\ id_call.bytes[1] \in KindsOf(id_call)
           /\ \A id \in id_call.out : id.kind = id_call.bytes[1]
    /\ (id_call.op = "Id128::try_from") =>
           /\ id_call.id.kind # id_call.kind => ~id_call.out.ok
           /\ id_call.out.ok => id_call.out.value = id_call.id
    /\ (id_call.op = "DynamicId::try_from") =>
           (id_call.out.ok <=> id_call.id.kind \in KindsOf(id_call))

\* EntityId::from_str was given a well-formed domain id and turned it down
\* for its kind.
C23_Witness ==
    /\ id_call.op = "DynamicId::from_str"
    /\ id_call.subset = "Entity"
    /\ PrefixOf(id_call.text) = <<"d">>
    /\ TailOf(id_call.text) = hex(to_be_bytes(u16_MAX + 1))
    /\ ~id_call.out.ok
    /\ id_call.out.error = "invalid subset"

\* The call's text is a prefix its type takes, a dot and 32 hex digits.
WellFormedFor(call) ==
    /\ \E kind \in KindsOf(call) : PrefixOf(call.text) = str_prefix(kind)
    /\ Len(call.text) = Len(PrefixOf(call.text)) + 33
    /\ decode(TailOf(call.text)) # None

\* C24: from_str, typed and dynamic, never returns an id of the reserved
\* range 1..=32767; given a prefix it takes, a dot and 32 hex digits it
\* fails when the digits are a number of that range and returns the id of
\* that number when they are 0 or 32768 and above; and random() never
\* returns an id of the reserved range.
C24_ReservedRange ==
    /\ (id_call.op \in {"Id128::from_str", "DynamicId::from_str"}) =>
           /\ id_call.out.ok => ~Reserved(id_call.out.value.id)
           /\ WellFormedFor(id_call) =>
                  IF Reserved(unwrap(decode(TailOf(id_call.text))))
                  THEN ~id_call.out.ok
                  ELSE /\ id_call.out.ok
                       /\ id_call.out.value.id = unwrap(decode(TailOf(id_call.text)))
    /\ (id_call.op = "Id128::random") => ~Reserved(id_call.out.id)

\* The first number past the reserved range was accepted by a typed from_str.
C24_Witness ==
    /\ id_call.op = "Id128::from_str"
    /\ id_call.out.ok
    /\ id_call.out.value.id = to_be_bytes(32768)
    /\ TailOf(id_call.text) = hex(to_be_bytes(32768))

\* C25: error::tonic reports a status of code Unauthenticated or
\* PermissionDenied as Unauthorized and a status of any other code as
\* Network; its result is always one of these two errors, never a success.
C25_StatusMapping ==
    id_call.op = "error::tonic" =>
        /\ ~id_call.out.ok
        /\ id_call.out.error \in {"Unauthorized", "Network"}
        /\ (id_call.out.error = "Unauthorized")
              <=> (id_call.err.code \in {Unauthenticated, PermissionDenied})

\* A status of code PermissionDenied was reported as Unauthorized.
C25_Witness ==
    /\ id_call.op = "error::tonic"
    /\ id_call.err.code = PermissionDenied
    /\ id_call.out = Err("Unauthorized")

\* C40: a make_connection that fails on its endpoint, because the url is no
\* URI or because the TLS configuration is refused, returns an error of the
\* Network kind.
C40_EndpointFailureIsNetwork ==
    (id_call.op = "make_connection" /\ id_call.fault \in {"InvalidUri", "TlsConfig"}) =>
        /\ ~id_call.out.ok
        /\ id_call.out.error = "Network"

====
